---- MODULE Spec2Model ----
(***************************************************************************)
(* Model of the bulk transaction staging and resolution engine of the      *)
(* ZenMoney MCP server (src/src/server.rs).                                *)
(*                                                                         *)
(* Amounts are f64 in the source; they are modelled as integers (JSON      *)
(* input cannot carry NaN or infinities, and only the comparisons with 0   *)
(* and equality are used).  Option<T> is a sequence of length at most one. *)
(* Result<T, McpError> is a record with an `ok` flag.                      *)
(***************************************************************************)
EXTENDS Integers, Sequences, FiniteSets, TLC

\* ---------------------------------------------------------------- bounds
\* Number of tool calls (prepare / execute) in one behaviour.
MaxCalls == 3
\* Longest batch enumerated for the pure batch-processing specification.
MaxBatchLen == 2
\* Number of create_tag / create_category calls in one behaviour.
MaxTagCalls == 2

\* ------------------------------------------------------ program constants
MAX_BULK_OPERATIONS == 20

\* ------------------------------------------------------ Option and Result
None == <<>>
Some(x) == <<x>>
IsSome(o) == o # <<>>
Unwrap(o) == o[1]

NoError == [code |-> "none", msg |-> "none"]
Ok(v) == [ok |-> TRUE, val |-> v, err |-> NoError]
Err(e) == [ok |-> FALSE, val |-> <<>>, err |-> e]

\* McpError::invalid_params(msg) and McpError::internal_error(msg)
invalid_params(m) == [code |-> "invalid_params", msg |-> m]
internal_error(m) == [code |-> "internal_error", msg |-> m]
\* zen_err wraps every ledger client failure into an internal error
zen_err == internal_error("ledger client error")

\* ------------------------------------------------------------ lookup maps
\* LookupMaps.account_instruments as built by build_lookup_maps: only the
\* accounts that carry an instrument are in the index ("acc-3" is not).
AccountInstrument == [a \in {"acc-1", "acc-2"} |-> IF a = "acc-1" THEN 1 ELSE 2]

build_lookup_maps == [account_instruments |-> AccountInstrument]

account_instrument(maps, id) ==
    IF id \in DOMAIN maps.account_instruments
    THEN Some(maps.account_instruments[id])
    ELSE None

\* ------------------------------------------------------------- parse_date
\* A date string is modelled by its '-'-separated numeric fields; a string
\* that is not of the form Y-M-D is any sequence of another length.
IsLeap(y) == (y % 4 = 0 /\ y % 100 # 0) \/ y % 400 = 0
DaysInMonth(y, m) ==
    IF m = 2 THEN (IF IsLeap(y) THEN 29 ELSE 28)
    ELSE IF m \in {4, 6, 9, 11} THEN 30 ELSE 31

parse_date(date_str) ==
    IF /\ Len(date_str) = 3
       /\ date_str[2] \in 1..12
       /\ date_str[3] \in 1..DaysInMonth(date_str[1], date_str[2])
    THEN Ok([year |-> date_str[1], month |-> date_str[2], day |-> date_str[3]])
    ELSE Err(invalid_params("invalid date"))

\* ----------------------------------------------------- resolve_instrument
\* Faulty variant: the account's own instrument wins over the override.
resolve_instrument_maps_first(maps, account_id, explicit) ==
    IF IsSome(account_instrument(maps, account_id))
    THEN Ok(Unwrap(account_instrument(maps, account_id)))
    ELSE IF IsSome(explicit) THEN Ok(Unwrap(explicit))
         ELSE Err(invalid_params("cannot resolve instrument"))

resolve_instrument(maps, account_id, explicit) ==
    IF IsSome(explicit) THEN Ok(Unwrap(explicit))
    ELSE IF IsSome(account_instrument(maps, account_id))
         THEN Ok(Unwrap(account_instrument(maps, account_id)))
         ELSE Err(invalid_params("cannot resolve instrument"))

\* --------------------------------------------------- classify_transaction
\* Faulty variant: two positive amounts are a transfer whatever the accounts.
classify_transaction_by_amounts(tx) ==
    IF tx.outcome > 0 /\ tx.income > 0 THEN "transfer"
    ELSE IF tx.income > 0 /\ tx.outcome = 0 THEN "income"
    ELSE "expense"

classify_transaction(tx) ==
    LET different_accounts == tx.outcome_account # tx.income_account IN
    IF tx.outcome > 0 /\ tx.income > 0 /\ different_accounts THEN "transfer"
    ELSE IF tx.income > 0 /\ (tx.outcome = 0 \/ ~different_accounts) THEN "income"
    ELSE "expense"

\* ---------------------------------------------------------- resolve_sides
\* Faulty variant: an income is resolved like an expense, the amount on the
\* outcome side.
resolve_sides_income_as_outcome(params, maps) ==
    IF params.transaction_type \in {"expense", "income"} THEN
        LET instrument == resolve_instrument(maps, params.account_id, params.instrument_id) IN
        IF ~instrument.ok THEN Err(instrument.err)
        ELSE Ok([outcome_account |-> params.account_id,
                 outcome |-> params.amount,
                 outcome_instrument |-> instrument.val,
                 income_account |-> params.account_id,
                 income |-> 0,
                 income_instrument |-> instrument.val])
    ELSE
        IF ~IsSome(params.to_account_id)
        THEN Err(invalid_params("to_account_id is required for transfer transactions"))
        ELSE
        LET to_account_id == Unwrap(params.to_account_id)
            from_instrument == resolve_instrument(maps, params.account_id, params.instrument_id)
            to_instrument == resolve_instrument(maps, to_account_id, params.to_instrument_id)
            to_amount == IF IsSome(params.to_amount) THEN Unwrap(params.to_amount)
                         ELSE params.amount
        IN
        IF ~from_instrument.ok THEN Err(from_instrument.err)
        ELSE IF ~to_instrument.ok THEN Err(to_instrument.err)
        ELSE Ok([outcome_account |-> params.account_id,
                 outcome |-> params.amount,
                 outcome_instrument |-> from_instrument.val,
                 income_account |-> to_account_id,
                 income |-> to_amount,
                 income_instrument |-> to_instrument.val])

\* Faulty variant: a transfer credits the source amount and uses the source
\* instrument on both sides, whatever to_amount and the destination say.
resolve_sides_transfer_mirrors(params, maps) ==
    IF params.transaction_type = "expense" THEN
        LET instrument == resolve_instrument(maps, params.account_id, params.instrument_id) IN
        IF ~instrument.ok THEN Err(instrument.err)
        ELSE Ok([outcome_account |-> params.account_id,
                 outcome |-> params.amount,
                 outcome_instrument |-> instrument.val,
                 income_account |-> params.account_id,
                 income |-> 0,
                 income_instrument |-> instrument.val])
    ELSE IF params.transaction_type = "income" THEN
        LET instrument == resolve_instrument(maps, params.account_id, params.instrument_id) IN
        IF ~instrument.ok THEN Err(instrument.err)
        ELSE Ok([outcome_account |-> params.account_id,
                 outcome |-> 0,
                 outcome_instrument |-> instrument.val,
                 income_account |-> params.account_id,
                 income |-> params.amount,
                 income_instrument |-> instrument.val])
    ELSE
        IF ~IsSome(params.to_account_id)
        THEN Err(invalid_params("to_account_id is required for transfer transactions"))
        ELSE
        LET to_account_id == Unwrap(params.to_account_id)
            from_instrument == resolve_instrument(maps, params.account_id, params.instrument_id)
        IN
        IF ~from_instrument.ok THEN Err(from_instrument.err)
        ELSE Ok([outcome_account |-> params.account_id,
                 outcome |-> params.amount,
                 outcome_instrument |-> from_instrument.val,
                 income_account |-> to_account_id,
                 income |-> params.amount,
                 income_instrument |-> from_instrument.val])

resolve_sides(params, maps) ==
    IF params.transaction_type = "expense" THEN
        LET instrument == resolve_instrument(maps, params.account_id, params.instrument_id) IN
        IF ~instrument.ok THEN Err(instrument.err)
        ELSE Ok([outcome_account |-> params.account_id,
                 outcome |-> params.amount,
                 outcome_instrument |-> instrument.val,
                 income_account |-> params.account_id,
                 income |-> 0,
                 income_instrument |-> instrument.val])
    ELSE IF params.transaction_type = "income" THEN
        LET instrument == resolve_instrument(maps, params.account_id, params.instrument_id) IN
        IF ~instrument.ok THEN Err(instrument.err)
        ELSE Ok([outcome_account |-> params.account_id,
                 outcome |-> 0,
                 outcome_instrument |-> instrument.val,
                 income_account |-> params.account_id,
                 income |-> params.amount,
                 income_instrument |-> instrument.val])
    ELSE
        IF ~IsSome(params.to_account_id)
        THEN Err(invalid_params("to_account_id is required for transfer transactions"))
        ELSE
        LET to_account_id == Unwrap(params.to_account_id)
            from_instrument == resolve_instrument(maps, params.account_id, params.instrument_id)
            to_instrument == resolve_instrument(maps, to_account_id, params.to_instrument_id)
            to_amount == IF IsSome(params.to_amount) THEN Unwrap(params.to_amount)
                         ELSE params.amount
        IN
        IF ~from_instrument.ok THEN Err(from_instrument.err)
        ELSE IF ~to_instrument.ok THEN Err(to_instrument.err)
        ELSE Ok([outcome_account |-> params.account_id,
                 outcome |-> params.amount,
                 outcome_instrument |-> from_instrument.val,
                 income_account |-> to_account_id,
                 income |-> to_amount,
                 income_instrument |-> to_instrument.val])

\* ------------------------------------------------------ build_transaction
\* Faulty variant: the amounts of the two sides are stored crosswise.
build_transaction_swaps_amounts(params, maps, now, transaction_id) ==
    LET date == parse_date(params.date)
        sides == resolve_sides(params, maps)
    IN
    IF ~date.ok THEN Err(date.err)
    ELSE IF ~sides.ok THEN Err(sides.err)
    ELSE Ok([id |-> transaction_id,
             changed |-> now,
             created |-> now,
             income_instrument |-> sides.val.income_instrument,
             income_account |-> sides.val.income_account,
             income |-> sides.val.outcome,
             outcome_instrument |-> sides.val.outcome_instrument,
             outcome_account |-> sides.val.outcome_account,
             outcome |-> sides.val.income,
             tag |-> params.tag_ids,
             payee |-> params.payee,
             comment |-> params.comment,
             date |-> date.val])

\* ------------------------------------------------------ build_transaction
\* `now` stands for Utc::now() and `transaction_id` for the fresh UUID.
build_transaction(params, maps, now, transaction_id) ==
    LET date == parse_date(params.date)
        sides == resolve_sides(params, maps)
    IN
    IF ~date.ok THEN Err(date.err)
    ELSE IF ~sides.ok THEN Err(sides.err)
    ELSE Ok([id |-> transaction_id,
             changed |-> now,
             created |-> now,
             income_instrument |-> sides.val.income_instrument,
             income_account |-> sides.val.income_account,
             income |-> sides.val.income,
             outcome_instrument |-> sides.val.outcome_instrument,
             outcome_account |-> sides.val.outcome_account,
             outcome |-> sides.val.outcome,
             tag |-> params.tag_ids,
             payee |-> params.payee,
             comment |-> params.comment,
             date |-> date.val])

\* ----------------------------------------------------------- apply_update
\* Result chaining of the `?` operator.
AndThen(r, F(_)) == IF r.ok THEN F(r.val) ELSE r

update_date(tx, params) ==
    IF IsSome(params.date)
    THEN LET date == parse_date(Unwrap(params.date)) IN
         IF date.ok THEN Ok([tx EXCEPT !.date = date.val]) ELSE Err(date.err)
    ELSE Ok(tx)

update_tags(tx, params) ==
    IF IsSome(params.tag_ids)
    THEN Ok([tx EXCEPT !.tag = Some(Unwrap(params.tag_ids))])
    ELSE Ok(tx)

update_payee(tx, params) ==
    IF IsSome(params.payee)
    THEN Ok([tx EXCEPT !.payee = IF Unwrap(params.payee) = "" THEN None
                                  ELSE Some(Unwrap(params.payee))])
    ELSE Ok(tx)

update_comment(tx, params) ==
    IF IsSome(params.comment)
    THEN Ok([tx EXCEPT !.comment = IF Unwrap(params.comment) = "" THEN None
                                    ELSE Some(Unwrap(params.comment))])
    ELSE Ok(tx)

\* Faulty variant: the account patch touches the outcome side only, whatever
\* the kind of the transaction.
update_account_outcome_only(tx, params, maps) ==
    IF IsSome(params.account_id)
    THEN LET account_id == Unwrap(params.account_id)
             instrument == resolve_instrument(maps, account_id, None)
         IN
         IF ~instrument.ok THEN Err(instrument.err)
         ELSE Ok([tx EXCEPT !.outcome_account = account_id,
                            !.outcome_instrument = instrument.val])
    ELSE Ok(tx)

update_account(tx, params, maps) ==
    IF IsSome(params.account_id)
    THEN LET account_id == Unwrap(params.account_id)
             tx_type == classify_transaction(tx)
             instrument == resolve_instrument(maps, account_id, None)
         IN
         IF ~instrument.ok THEN Err(instrument.err)
         ELSE IF tx_type \in {"expense", "income"}
         THEN Ok([tx EXCEPT !.outcome_account = account_id,
                            !.income_account = account_id,
                            !.outcome_instrument = instrument.val,
                            !.income_instrument = instrument.val])
         ELSE Ok([tx EXCEPT !.outcome_account = account_id,
                            !.outcome_instrument = instrument.val])
    ELSE Ok(tx)

update_to_account(tx, params, maps) ==
    IF IsSome(params.to_account_id)
    THEN LET to_account_id == Unwrap(params.to_account_id)
             instrument == resolve_instrument(maps, to_account_id, None)
         IN
         IF ~instrument.ok THEN Err(instrument.err)
         ELSE Ok([tx EXCEPT !.income_account = to_account_id,
                            !.income_instrument = instrument.val])
    ELSE Ok(tx)

\* Faulty variant: the amount patch always goes to the outcome side.
update_amount_outcome_always(tx, params) ==
    IF IsSome(params.amount)
    THEN Ok([tx EXCEPT !.outcome = Unwrap(params.amount)])
    ELSE Ok(tx)

update_amount(tx, params) ==
    IF IsSome(params.amount)
    THEN IF classify_transaction(tx) = "income"
         THEN Ok([tx EXCEPT !.income = Unwrap(params.amount)])
         ELSE Ok([tx EXCEPT !.outcome = Unwrap(params.amount)])
    ELSE Ok(tx)

update_to_amount(tx, params) ==
    IF IsSome(params.to_amount)
    THEN Ok([tx EXCEPT !.income = Unwrap(params.to_amount)])
    ELSE Ok(tx)

\* Faulty variant: a patch without a payee clears the payee, and the
\* `changed` timestamp is left as it was.
apply_update_clears_payee(tx, params, maps, now) ==
    LET r1 == update_date(tx, params)
        r2 == AndThen(r1, LAMBDA t : update_tags(t, params))
        r3 == AndThen(r2, LAMBDA t : IF IsSome(params.payee) THEN update_payee(t, params)
                                     ELSE Ok([t EXCEPT !.payee = None]))
        r4 == AndThen(r3, LAMBDA t : update_comment(t, params))
        r5 == AndThen(r4, LAMBDA t : update_account(t, params, maps))
        r6 == AndThen(r5, LAMBDA t : update_to_account(t, params, maps))
        r7 == AndThen(r6, LAMBDA t : update_amount(t, params))
    IN AndThen(r7, LAMBDA t : update_to_amount(t, params))

\* Faulty variant: the amount rule runs before the two account rules, so it
\* sees the kind the transaction had on entry.
apply_update_amount_first(tx, params, maps, now) ==
    LET r1 == update_date(tx, params)
        r2 == AndThen(r1, LAMBDA t : update_tags(t, params))
        r3 == AndThen(r2, LAMBDA t : update_payee(t, params))
        r4 == AndThen(r3, LAMBDA t : update_comment(t, params))
        r5 == AndThen(r4, LAMBDA t : update_amount(t, params))
        r6 == AndThen(r5, LAMBDA t : update_account(t, params, maps))
        r7 == AndThen(r6, LAMBDA t : update_to_account(t, params, maps))
        r8 == AndThen(r7, LAMBDA t : update_to_amount(t, params))
    IN AndThen(r8, LAMBDA t : Ok([t EXCEPT !.changed = now]))

\* The source mutates `tx` in place and returns (); the model returns the
\* mutated transaction.  `now` stands for Utc::now().
apply_update(tx, params, maps, now) ==
    LET r1 == update_date(tx, params)
        r2 == AndThen(r1, LAMBDA t : update_tags(t, params))
        r3 == AndThen(r2, LAMBDA t : update_payee(t, params))
        r4 == AndThen(r3, LAMBDA t : update_comment(t, params))
        r5 == AndThen(r4, LAMBDA t : update_account(t, params, maps))
        r6 == AndThen(r5, LAMBDA t : update_to_account(t, params, maps))
        r7 == AndThen(r6, LAMBDA t : update_amount(t, params))
        r8 == AndThen(r7, LAMBDA t : update_to_amount(t, params))
    IN AndThen(r8, LAMBDA t : Ok([t EXCEPT !.changed = now]))

\* ------------------------------------------------ process_bulk_operations
\* all_transactions.iter().find(|tx| tx.id == id)
find_transaction(all_transactions, id) ==
    LET idx == {i \in 1..Len(all_transactions) : all_transactions[i].id = id} IN
    IF idx = {} THEN None
    ELSE Some(all_transactions[CHOOSE i \in idx : \A j \in idx : i <= j])

EmptyBulk(fresh) ==
    [to_push |-> <<>>, to_delete |-> <<>>, created_count |-> 0,
     updated_count |-> 0, next_id |-> fresh]

\* Faulty variant: an update starts from the latest version of the
\* transaction queued in this batch, when there is one.
process_one_cumulative(op, acc, all_transactions, maps, now) ==
    IF op.operation = "create" THEN
        LET new_tx == build_transaction(op.params, maps, now, acc.next_id) IN
        IF ~new_tx.ok THEN Err(new_tx.err)
        ELSE Ok([acc EXCEPT !.to_push = Append(@, new_tx.val),
                            !.created_count = @ + 1,
                            !.next_id = @ + 1])
    ELSE IF op.operation = "update" THEN
        LET queued == {i \in 1..Len(acc.to_push) : acc.to_push[i].id = op.params.id}
            found == IF queued = {} THEN find_transaction(all_transactions, op.params.id)
                     ELSE Some(acc.to_push[CHOOSE i \in queued : \A j \in queued : j <= i])
        IN
        IF ~IsSome(found) THEN Err(invalid_params("transaction not found"))
        ELSE LET updated == apply_update(Unwrap(found), op.params, maps, now) IN
             IF ~updated.ok THEN Err(updated.err)
             ELSE Ok([acc EXCEPT !.to_push = Append(@, updated.val),
                                 !.updated_count = @ + 1])
    ELSE
        IF ~IsSome(find_transaction(all_transactions, op.params.id))
        THEN Err(invalid_params("transaction not found"))
        ELSE Ok([acc EXCEPT !.to_delete = Append(@, op.params.id)])

\* Faulty variant: a delete of an id already queued for deletion is dropped.
process_one_dedups(op, acc, all_transactions, maps, now) ==
    IF op.operation = "create" THEN
        LET new_tx == build_transaction(op.params, maps, now, acc.next_id) IN
        IF ~new_tx.ok THEN Err(new_tx.err)
        ELSE Ok([acc EXCEPT !.to_push = Append(@, new_tx.val),
                            !.created_count = @ + 1,
                            !.next_id = @ + 1])
    ELSE IF op.operation = "update" THEN
        LET found == find_transaction(all_transactions, op.params.id) IN
        IF ~IsSome(found) THEN Err(invalid_params("transaction not found"))
        ELSE LET updated == apply_update(Unwrap(found), op.params, maps, now) IN
             IF ~updated.ok THEN Err(updated.err)
             ELSE Ok([acc EXCEPT !.to_push = Append(@, updated.val),
                                 !.updated_count = @ + 1])
    ELSE
        IF ~IsSome(find_transaction(all_transactions, op.params.id))
        THEN Err(invalid_params("transaction not found"))
        ELSE IF \E i \in 1..Len(acc.to_delete) : acc.to_delete[i] = op.params.id
        THEN Ok(acc)
        ELSE Ok([acc EXCEPT !.to_delete = Append(@, op.params.id)])

\* Faulty variant: a delete also queues the found transaction for a push.
process_one_tombstone(op, acc, all_transactions, maps, now) ==
    IF op.operation = "create" THEN
        LET new_tx == build_transaction(op.params, maps, now, acc.next_id) IN
        IF ~new_tx.ok THEN Err(new_tx.err)
        ELSE Ok([acc EXCEPT !.to_push = Append(@, new_tx.val),
                            !.created_count = @ + 1,
                            !.next_id = @ + 1])
    ELSE IF op.operation = "update" THEN
        LET found == find_transaction(all_transactions, op.params.id) IN
        IF ~IsSome(found) THEN Err(invalid_params("transaction not found"))
        ELSE LET updated == apply_update(Unwrap(found), op.params, maps, now) IN
             IF ~updated.ok THEN Err(updated.err)
             ELSE Ok([acc EXCEPT !.to_push = Append(@, updated.val),
                                 !.updated_count = @ + 1])
    ELSE
        LET found == find_transaction(all_transactions, op.params.id) IN
        IF ~IsSome(found) THEN Err(invalid_params("transaction not found"))
        ELSE Ok([acc EXCEPT !.to_delete = Append(@, op.params.id),
                            !.to_push = Append(@, Unwrap(found))])

\* One iteration of the `for op in operations` loop on the accumulator `acc`;
\* acc.next_id is the identifier the next uuid::Uuid::new_v4() yields.
process_one(op, acc, all_transactions, maps, now) ==
    IF op.operation = "create" THEN
        LET new_tx == build_transaction(op.params, maps, now, acc.next_id) IN
        IF ~new_tx.ok THEN Err(new_tx.err)
        ELSE Ok([acc EXCEPT !.to_push = Append(@, new_tx.val),
                            !.created_count = @ + 1,
                            !.next_id = @ + 1])
    ELSE IF op.operation = "update" THEN
        LET found == find_transaction(all_transactions, op.params.id) IN
        IF ~IsSome(found) THEN Err(invalid_params("transaction not found"))
        ELSE LET updated == apply_update(Unwrap(found), op.params, maps, now) IN
             IF ~updated.ok THEN Err(updated.err)
             ELSE Ok([acc EXCEPT !.to_push = Append(@, updated.val),
                                 !.updated_count = @ + 1])
    ELSE
        IF ~IsSome(find_transaction(all_transactions, op.params.id))
        THEN Err(invalid_params("transaction not found"))
        ELSE Ok([acc EXCEPT !.to_delete = Append(@, op.params.id)])

\* Faulty variant: an operation that fails is skipped and the loop goes on.
RECURSIVE process_loop_skips(_, _, _, _, _, _)
process_loop_skips(operations, i, acc, all_transactions, maps, now) ==
    IF i > Len(operations) THEN Ok(acc)
    ELSE LET r == process_one(operations[i], acc, all_transactions, maps, now) IN
         process_loop_skips(operations, i + 1, IF r.ok THEN r.val ELSE acc,
                            all_transactions, maps, now)

RECURSIVE process_loop(_, _, _, _, _, _)
process_loop(operations, i, acc, all_transactions, maps, now) ==
    IF i > Len(operations) THEN Ok(acc)
    ELSE LET r == process_one(operations[i], acc, all_transactions, maps, now) IN
         IF ~r.ok THEN r
         ELSE process_loop(operations, i + 1, r.val, all_transactions, maps, now)

\* `fresh` is the first unused transaction identifier.
process_bulk_operations(operations, all_transactions, maps, now, fresh) ==
    process_loop(operations, 1, EmptyBulk(fresh), all_transactions, maps, now)

\* ---------------------------------------------------------------- tags
\* A title is the sequence of its characters, over a small alphabet with a
\* blank and letters in both cases.
Whitespace == {" "}
Lower == [ch \in {" ", "g", "G", "r", "R"} |->
            IF ch = "G" THEN "g" ELSE IF ch = "R" THEN "r" ELSE ch]

\* str::trim
RECURSIVE trim_start(_)
trim_start(title) ==
    IF title # <<>> /\ Head(title) \in Whitespace THEN trim_start(Tail(title))
    ELSE title

RECURSIVE trim_end(_)
trim_end(title) ==
    IF title # <<>> /\ title[Len(title)] \in Whitespace
    THEN trim_end(SubSeq(title, 1, Len(title) - 1))
    ELSE title

trim(title) == trim_end(trim_start(title))

\* str::to_lowercase
to_lowercase(title) == [i \in 1..Len(title) |-> Lower[title[i]]]

normalize_tag_title(title) ==
    LET trimmed == trim(title) IN
    IF trimmed = <<>> THEN Err(invalid_params("title must not be empty or blank"))
    ELSE Ok(trimmed)

normalized_title_key(title) == to_lowercase(trim(title))

\* Faulty variant: the titles are compared as they are written.
find_tag_by_title_exact(all_tags, title) ==
    LET idx == {i \in 1..Len(all_tags) : all_tags[i].title = title} IN
    IF idx = {} THEN None
    ELSE Some(all_tags[CHOOSE i \in idx : \A j \in idx : i <= j])

find_tag_by_title_case_insensitive(all_tags, title) ==
    LET key == normalized_title_key(title)
        idx == {i \in 1..Len(all_tags) : normalized_title_key(all_tags[i].title) = key}
    IN
    IF idx = {} THEN None
    ELSE Some(all_tags[CHOOSE i \in idx : \A j \in idx : i <= j])

validate_parent_tag_exists(all_tags, parent_tag_id) ==
    IF IsSome(parent_tag_id)
       /\ ~\E i \in 1..Len(all_tags) : all_tags[i].id = Unwrap(parent_tag_id)
    THEN Err(invalid_params("parent_tag_id not found"))
    ELSE Ok(<<>>)

\* `now` stands for Utc::now() and `tag_id` for the fresh UUID.
build_tag(params, user_id, title, now, tag_id) ==
    [id |-> tag_id, changed |-> now, user |-> user_id, title |-> title,
     parent |-> params.parent_tag_id]

\* =========================================================================
\* The server: ledger client storage, preparation store and tool calls.
\* =========================================================================
VARIABLES
    transactions,   \* ledger client storage: what client.transactions() returns
    preparations,   \* self.preparations: HashMap<String, PreparedBulk>
    calls,          \* the tool calls in flight or finished, by call number
    started,        \* number of tool calls issued so far
    next_tx_id,     \* next transaction identifier uuid::Uuid::new_v4() yields
    next_prep_id,   \* next preparation identifier uuid::Uuid::new_v4() yields
    clock,          \* Utc::now()
    writes,         \* history: the ledger writes issued, in order
    bulk,           \* input and output of a run of a pure function
    tags,           \* ledger client storage: what client.tags() returns
    next_tag_id,    \* next tag identifier uuid::Uuid::new_v4() yields
    lock            \* holder of the self.preparations mutex: a call number, 0 if free

vars == <<transactions, preparations, calls, started, next_tx_id,
          next_prep_id, clock, writes, bulk, tags, next_tag_id, lock>>

Calls == 1..MaxCalls

\* ------------------------------------------------------------ input sets
GoodDate == <<2024, 6, 15>>
BadDate == <<2024, 2, 30>>
\* A preparation id no prepare call ever generated.
UnknownKey == 0
\* A transaction id that is not in the ledger and is never generated.
UnknownTx == 99

\* The tag of the test ledger ("Groceries"), and a tag id that is in no ledger.
sample_tags == <<[id |-> 1, changed |-> 0, user |-> 0, title |-> <<"G", "r">>,
                 parent |-> None]>>
UnknownTag == 99

sample_transaction(id, outcome, income) ==
    [id |-> id, changed |-> 0, created |-> 0,
     income_instrument |-> 1, income_account |-> "acc-1", income |-> income,
     outcome_instrument |-> 1, outcome_account |-> "acc-1", outcome |-> outcome,
     tag |-> None, payee |-> None, comment |-> None,
     date |-> [year |-> 2024, month |-> 6, day |-> 15]]

Create(type, date, account, amount, to_account, to_amount) ==
    [operation |-> "create",
     params |-> [transaction_type |-> type, date |-> date, account_id |-> account,
                 amount |-> amount, to_account_id |-> to_account,
                 to_amount |-> to_amount, instrument_id |-> None,
                 to_instrument_id |-> None, tag_ids |-> None,
                 payee |-> None, comment |-> None]]

Update(id, date, amount, account) ==
    [operation |-> "update",
     params |-> [id |-> id, date |-> date, amount |-> amount, to_amount |-> None,
                 account_id |-> account, to_account_id |-> None,
                 tag_ids |-> None, payee |-> None, comment |-> None]]

Delete(id) == [operation |-> "delete", params |-> [id |-> id]]

Repeat(op, n) == [i \in 1..n |-> op]

\* The batches the tool calls of the server specification are issued with.
Batches ==
    { <<Create("expense", GoodDate, "acc-1", 500, None, None)>>,
      <<Update(1, None, Some(200), None), Delete(2)>>,
      <<Create("income", GoodDate, "acc-2", 7, None, None), Update(UnknownTx, None, Some(5), None)>>,
      Repeat(Delete(1), MAX_BULK_OPERATIONS),
      Repeat(Delete(1), MAX_BULK_OPERATIONS + 1) }

\* -------------------------------------------------------- ledger client
\* client.push_transactions upserts the batch by id, in order.
upsert(store, tx) ==
    IF \E i \in 1..Len(store) : store[i].id = tx.id
    THEN [i \in 1..Len(store) |-> IF store[i].id = tx.id THEN tx ELSE store[i]]
    ELSE Append(store, tx)

RECURSIVE push_transactions(_, _)
push_transactions(store, batch) ==
    IF batch = <<>> THEN store
    ELSE push_transactions(upsert(store, Head(batch)), Tail(batch))

\* client.delete_transactions removes the transactions with the given ids.
delete_transactions(store, ids) ==
    SelectSeq(store, LAMBDA tx : \A i \in 1..Len(ids) : ids[i] # tx.id)

\* ------------------------------------------------------------ call state
IdleCall ==
    [tool |-> "idle", pc |-> "idle", operations |-> <<>>, preparation_id |-> UnknownKey,
     all_transactions |-> None, prepared |-> None, lookup |-> "none", result |-> None,
     ledger_read |-> FALSE, entered_with |-> {}, entered_after_consume |-> FALSE]

PreparedBulk(b) ==
    [to_push |-> b.to_push, to_delete |-> b.to_delete,
     created_count |-> b.created_count, updated_count |-> b.updated_count]

Init ==
    /\ transactions = <<sample_transaction(1, 100, 0), sample_transaction(2, 200, 0)>>
    /\ preparations = <<>>
    /\ calls = [c \in Calls |-> IdleCall]
    /\ started = 0
    /\ next_tx_id = 3
    /\ next_prep_id = 1
    /\ clock = 1
    /\ writes = <<>>
    /\ bulk = [operations |-> <<>>, result |-> None]
    /\ tags = sample_tags
    /\ next_tag_id = 2
    /\ lock = 0

\* The preparation ids that prepare calls have returned to their callers.
ReturnedKeys ==
    {calls[c].result[1].val.preparation_id :
        c \in {d \in Calls : /\ calls[d].tool = "prepare"
                             /\ calls[d].pc = "done"
                             /\ calls[d].result[1].ok}}

\* The calls that have been entered and have not returned yet.
InFlight == {c \in Calls : calls[c].pc \notin {"idle", "done"}}

Finish(c, r) == [calls EXCEPT ![c].pc = "done", ![c].result = Some(r)]

\* ------------------------------------------------ prepare_bulk_operations
\* Faulty variant: the size check rejects a batch of exactly the limit.
PrepareStartOffByOne(c, operations) ==
    /\ c = started + 1
    /\ c \in Calls
    /\ started' = c
    /\ IF Len(operations) >= MAX_BULK_OPERATIONS
       THEN calls' = [calls EXCEPT ![c].tool = "prepare",
                                   ![c].operations = operations,
                                   ![c].pc = "done",
                                   ![c].result = Some(Err(invalid_params("too many operations")))]
       ELSE \/ calls' = [calls EXCEPT ![c].tool = "prepare",
                                      ![c].operations = operations,
                                      ![c].ledger_read = TRUE,
                                      ![c].pc = "transactions"]
            \/ calls' = [calls EXCEPT ![c].tool = "prepare",
                                      ![c].operations = operations,
                                      ![c].ledger_read = TRUE,
                                      ![c].pc = "done",
                                      ![c].result = Some(Err(zen_err))]
    /\ UNCHANGED <<transactions, preparations, next_tx_id, next_prep_id, clock, writes, bulk, tags, next_tag_id, lock>>

\* Call entry: the batch size check, then self.lookup_maps().await? (reads of
\* accounts, tags and instruments, which may fail).  No modelled operation
\* changes accounts or instruments, so the reads are taken with the entry.
PrepareStart(c, operations) ==
    /\ c = started + 1
    /\ c \in Calls
    /\ started' = c
    /\ IF Len(operations) > MAX_BULK_OPERATIONS
       THEN calls' = [calls EXCEPT ![c].tool = "prepare",
                                   ![c].operations = operations,
                                   ![c].pc = "done",
                                   ![c].result = Some(Err(invalid_params("too many operations")))]
       ELSE \/ calls' = [calls EXCEPT ![c].tool = "prepare",
                                      ![c].operations = operations,
                                      ![c].ledger_read = TRUE,
                                      ![c].pc = "transactions"]
            \/ calls' = [calls EXCEPT ![c].tool = "prepare",
                                      ![c].operations = operations,
                                      ![c].ledger_read = TRUE,
                                      ![c].pc = "done",
                                      ![c].result = Some(Err(zen_err))]
    /\ UNCHANGED <<transactions, preparations, next_tx_id, next_prep_id, clock, writes, bulk, tags, next_tag_id, lock>>

\* Faulty variant: the preparation id is generated and reserved in the store
\* before the batch is validated.
PrepareLoadStagesEarly(c) ==
    /\ calls[c].tool = "prepare"
    /\ calls[c].pc = "transactions"
    /\ \/ /\ calls' = [calls EXCEPT ![c].pc = "done", ![c].ledger_read = TRUE,
                                    ![c].result = Some(Err(zen_err))]
          /\ UNCHANGED <<next_tx_id, clock, preparations, next_prep_id>>
       \/ LET r == process_bulk_operations(calls[c].operations, transactions,
                                           build_lookup_maps, clock, next_tx_id) IN
          IF r.ok
          THEN /\ calls' = [calls EXCEPT ![c].pc = "stage", ![c].ledger_read = TRUE,
                                         ![c].all_transactions = Some(transactions),
                                         ![c].prepared = Some(PreparedBulk(r.val))]
               /\ next_tx_id' = r.val.next_id
               /\ clock' = clock + 1
               /\ UNCHANGED <<preparations, next_prep_id>>
          ELSE /\ calls' = [calls EXCEPT ![c].pc = "done", ![c].ledger_read = TRUE,
                                         ![c].all_transactions = Some(transactions),
                                         ![c].result = Some(Err(r.err))]
               /\ preparations' = [k \in DOMAIN preparations \cup {next_prep_id} |->
                                     IF k = next_prep_id THEN PreparedBulk(EmptyBulk(0))
                                     ELSE preparations[k]]
               /\ next_prep_id' = next_prep_id + 1
               /\ UNCHANGED <<next_tx_id, clock>>
    /\ UNCHANGED <<transactions, started, writes, bulk, tags, next_tag_id, lock>>

\* self.client.transactions().await? followed by process_bulk_operations(..)?
PrepareLoad(c) ==
    /\ calls[c].tool = "prepare"
    /\ calls[c].pc = "transactions"
    /\ \/ /\ calls' = [calls EXCEPT ![c].pc = "done", ![c].ledger_read = TRUE,
                                    ![c].result = Some(Err(zen_err))]
          /\ UNCHANGED <<next_tx_id, clock>>
       \/ LET r == process_bulk_operations(calls[c].operations, transactions,
                                           build_lookup_maps, clock, next_tx_id) IN
          IF r.ok
          THEN /\ calls' = [calls EXCEPT ![c].pc = "stage", ![c].ledger_read = TRUE,
                                         ![c].all_transactions = Some(transactions),
                                         ![c].prepared = Some(PreparedBulk(r.val))]
               /\ next_tx_id' = r.val.next_id
               /\ clock' = clock + 1
          ELSE /\ calls' = [calls EXCEPT ![c].pc = "done", ![c].ledger_read = TRUE,
                                         ![c].all_transactions = Some(transactions),
                                         ![c].result = Some(Err(r.err))]
               /\ UNCHANGED <<next_tx_id, clock>>
    /\ UNCHANGED <<transactions, preparations, started, next_prep_id, writes, bulk, tags, next_tag_id, lock>>

\* Faulty variant: staging also applies the batch to the ledger.
PrepareStageApplies(c) ==
    /\ calls[c].tool = "prepare"
    /\ calls[c].pc = "stage"
    /\ LET preparation_id == next_prep_id
           prepared == Unwrap(calls[c].prepared)
       IN
       /\ preparations' = [k \in DOMAIN preparations \cup {preparation_id} |->
                             IF k = preparation_id THEN prepared ELSE preparations[k]]
       /\ next_prep_id' = next_prep_id + 1
       /\ transactions' = push_transactions(transactions, prepared.to_push)
       /\ calls' = Finish(c, Ok([preparation_id |-> preparation_id,
                                 created |-> prepared.created_count,
                                 updated |-> prepared.updated_count,
                                 deleted |-> Len(prepared.to_delete)]))
    /\ UNCHANGED <<started, next_tx_id, clock, writes, bulk, tags, next_tag_id, lock>>

\* Fresh preparation_id, insert under the lock, return the preview.
PrepareStage(c) ==
    /\ calls[c].tool = "prepare"
    /\ calls[c].pc = "stage"
    /\ LET preparation_id == next_prep_id
           prepared == Unwrap(calls[c].prepared)
       IN
       /\ preparations' = [k \in DOMAIN preparations \cup {preparation_id} |->
                             IF k = preparation_id THEN prepared ELSE preparations[k]]
       /\ next_prep_id' = next_prep_id + 1
       /\ calls' = Finish(c, Ok([preparation_id |-> preparation_id,
                                 created |-> prepared.created_count,
                                 updated |-> prepared.updated_count,
                                 deleted |-> Len(prepared.to_delete)]))
    /\ UNCHANGED <<transactions, started, next_tx_id, clock, writes, bulk, tags, next_tag_id, lock>>

prepare_bulk_operations(c) ==
    \/ \E operations \in Batches : PrepareStart(c, operations)
    \/ PrepareLoad(c)
    \/ PrepareStage(c)

\* ------------------------------------------------ execute_bulk_operations
\* The program point after the store lookup / after the push.
AfterConsume(prepared) ==
    IF prepared.to_push # <<>> THEN "push"
    ELSE IF prepared.to_delete # <<>> THEN "read" ELSE "return"

\* Faulty variant: the delete is made without the emptiness test.
AfterPushAlwaysDeletes(prepared) == "read"

AfterPush(prepared) == IF prepared.to_delete # <<>> THEN "read" ELSE "return"

ExecuteSummary(prepared) ==
    Ok([created |-> prepared.created_count, updated |-> prepared.updated_count,
        deleted |-> Len(prepared.to_delete)])

\* Moves call c to program point pc; "return" is the final json_result.
Advance(c, pc, prepared) ==
    IF pc = "return"
    THEN [calls EXCEPT ![c].pc = "done", ![c].prepared = Some(prepared),
                       ![c].result = Some(ExecuteSummary(prepared))]
    ELSE [calls EXCEPT ![c].pc = pc, ![c].prepared = Some(prepared)]

\* Call entry.  A caller knows the keys that prepare calls returned; any
\* other value it sends is a key that was never generated.
ExecuteStart(c, preparation_id) ==
    /\ c = started + 1
    /\ c \in Calls
    /\ preparation_id \in ReturnedKeys \cup {UnknownKey}
    /\ started' = c
    /\ calls' = [calls EXCEPT ![c].tool = "execute",
                              ![c].preparation_id = preparation_id,
                              ![c].entered_with = InFlight,
                              ![c].entered_after_consume =
                                  /\ preparation_id \in ReturnedKeys
                                  /\ preparation_id \notin DOMAIN preparations,
                              ![c].pc = "lookup_maps"]
    /\ UNCHANGED <<transactions, preparations, next_tx_id, next_prep_id, clock, writes, bulk, tags, next_tag_id, lock>>

\* self.lookup_maps().await?: reads of accounts, tags and instruments.
ExecuteLookupMaps(c) ==
    /\ calls[c].tool = "execute"
    /\ calls[c].pc = "lookup_maps"
    /\ \/ calls' = [calls EXCEPT ![c].pc = "consume", ![c].ledger_read = TRUE]
       \/ calls' = [calls EXCEPT ![c].pc = "done", ![c].ledger_read = TRUE,
                                 ![c].result = Some(Err(zen_err))]
    /\ UNCHANGED <<transactions, preparations, started, next_tx_id, next_prep_id, clock, writes, bulk, tags, next_tag_id, lock>>

\* Faulty variant: the store lookup reads the entry without removing it.
ExecuteConsumeKeeps(c) ==
    /\ calls[c].tool = "execute"
    /\ calls[c].pc = "consume"
    /\ LET preparation_id == calls[c].preparation_id IN
       IF preparation_id \in DOMAIN preparations
       THEN calls' = [Advance(c, AfterConsume(preparations[preparation_id]),
                              preparations[preparation_id])
                         EXCEPT ![c].lookup = "found"]
       ELSE calls' = [calls EXCEPT ![c].pc = "done", ![c].lookup = "missing",
                        ![c].result = Some(Err(invalid_params(
                            "preparation not found or already executed")))]
    /\ UNCHANGED <<transactions, preparations, started, next_tx_id, next_prep_id,
                   clock, writes, bulk, tags, next_tag_id, lock>>

\* self.preparations.lock()?.remove(&preparation_id).ok_or_else(..)?
ExecuteConsume(c) ==
    /\ calls[c].tool = "execute"
    /\ calls[c].pc = "consume"
    /\ LET preparation_id == calls[c].preparation_id IN
       IF preparation_id \in DOMAIN preparations
       THEN /\ preparations' = [k \in DOMAIN preparations \ {preparation_id} |-> preparations[k]]
            /\ calls' = [Advance(c, AfterConsume(preparations[preparation_id]),
                                 preparations[preparation_id])
                            EXCEPT ![c].lookup = "found"]
       ELSE /\ preparations' = preparations
            /\ calls' = [calls EXCEPT ![c].pc = "done", ![c].lookup = "missing",
                           ![c].result = Some(Err(invalid_params(
                               "preparation not found or already executed")))]
    /\ UNCHANGED <<transactions, started, next_tx_id, next_prep_id, clock, writes, bulk, tags, next_tag_id, lock>>

WriteRecord(c, kind, arg, ok) ==
    [call |-> c, kind |-> kind, preparation_id |-> calls[c].preparation_id,
     arg |-> arg, ok |-> ok]

\* Faulty variant: a failed push is retried instead of being returned.
ExecutePushRetries(c) ==
    /\ calls[c].tool = "execute"
    /\ calls[c].pc = "push"
    /\ LET prepared == Unwrap(calls[c].prepared) IN
       \/ /\ transactions' = push_transactions(transactions, prepared.to_push)
          /\ writes' = Append(writes, WriteRecord(c, "push", prepared.to_push, TRUE))
          /\ calls' = Advance(c, AfterPush(prepared), prepared)
       \/ /\ Len(writes) < 2 * MaxCalls
          /\ transactions' = transactions
          /\ writes' = Append(writes, WriteRecord(c, "push", prepared.to_push, FALSE))
          /\ calls' = calls
    /\ UNCHANGED <<preparations, started, next_tx_id, next_prep_id, clock, bulk, tags, next_tag_id, lock>>

\* self.client.push_transactions(prepared.to_push).await?
ExecutePush(c) ==
    /\ calls[c].tool = "execute"
    /\ calls[c].pc = "push"
    /\ LET prepared == Unwrap(calls[c].prepared) IN
       \/ /\ transactions' = push_transactions(transactions, prepared.to_push)
          /\ writes' = Append(writes, WriteRecord(c, "push", prepared.to_push, TRUE))
          /\ calls' = Advance(c, AfterPush(prepared), prepared)
       \/ /\ transactions' = transactions
          /\ writes' = Append(writes, WriteRecord(c, "push", prepared.to_push, FALSE))
          /\ calls' = Finish(c, Err(zen_err))
    /\ UNCHANGED <<preparations, started, next_tx_id, next_prep_id, clock, bulk, tags, next_tag_id, lock>>

\* Faulty variant: the read is used to validate the staged deletes again,
\* and the call is rejected when one of them is no longer in the ledger.
ExecuteReadRevalidates(c) ==
    /\ calls[c].tool = "execute"
    /\ calls[c].pc = "read"
    /\ LET prepared == Unwrap(calls[c].prepared) IN
       \/ /\ \A i \in 1..Len(prepared.to_delete) :
                 IsSome(find_transaction(transactions, prepared.to_delete[i]))
          /\ calls' = [calls EXCEPT ![c].pc = "delete", ![c].ledger_read = TRUE]
       \/ /\ \E i \in 1..Len(prepared.to_delete) :
                 ~IsSome(find_transaction(transactions, prepared.to_delete[i]))
          /\ calls' = [calls EXCEPT ![c].pc = "done", ![c].ledger_read = TRUE,
                          ![c].result = Some(Err(invalid_params("transaction not found")))]
       \/ calls' = [calls EXCEPT ![c].pc = "done", ![c].ledger_read = TRUE,
                                 ![c].result = Some(Err(zen_err))]
    /\ UNCHANGED <<transactions, preparations, started, next_tx_id, next_prep_id, clock, writes, bulk, tags, next_tag_id, lock>>

\* self.client.transactions().await? for the deletion preview
ExecuteRead(c) ==
    /\ calls[c].tool = "execute"
    /\ calls[c].pc = "read"
    /\ \/ calls' = [calls EXCEPT ![c].pc = "delete", ![c].ledger_read = TRUE]
       \/ calls' = [calls EXCEPT ![c].pc = "done", ![c].ledger_read = TRUE,
                                 ![c].result = Some(Err(zen_err))]
    /\ UNCHANGED <<transactions, preparations, started, next_tx_id, next_prep_id, clock, writes, bulk, tags, next_tag_id, lock>>

\* Faulty variant: a failed delete is compensated by deleting what was pushed.
ExecuteDeleteRollsBack(c) ==
    /\ calls[c].tool = "execute"
    /\ calls[c].pc = "delete"
    /\ LET prepared == Unwrap(calls[c].prepared)
           pushed == [i \in 1..Len(prepared.to_push) |-> prepared.to_push[i].id]
       IN
       \/ /\ transactions' = delete_transactions(transactions, prepared.to_delete)
          /\ writes' = Append(writes, WriteRecord(c, "delete", prepared.to_delete, TRUE))
          /\ calls' = Advance(c, "return", prepared)
       \/ /\ transactions' = delete_transactions(transactions, pushed)
          /\ writes' = writes \o <<WriteRecord(c, "delete", prepared.to_delete, FALSE),
                                   WriteRecord(c, "delete", pushed, TRUE)>>
          /\ calls' = Finish(c, Err(zen_err))
    /\ UNCHANGED <<preparations, started, next_tx_id, next_prep_id, clock, bulk, tags, next_tag_id, lock>>

\* self.client.delete_transactions(&prepared.to_delete).await?
ExecuteDelete(c) ==
    /\ calls[c].tool = "execute"
    /\ calls[c].pc = "delete"
    /\ LET prepared == Unwrap(calls[c].prepared) IN
       \/ /\ transactions' = delete_transactions(transactions, prepared.to_delete)
          /\ writes' = Append(writes, WriteRecord(c, "delete", prepared.to_delete, TRUE))
          /\ calls' = Advance(c, "return", prepared)
       \/ /\ transactions' = transactions
          /\ writes' = Append(writes, WriteRecord(c, "delete", prepared.to_delete, FALSE))
          /\ calls' = Finish(c, Err(zen_err))
    /\ UNCHANGED <<preparations, started, next_tx_id, next_prep_id, clock, bulk, tags, next_tag_id, lock>>

execute_bulk_operations(c) ==
    \/ \E preparation_id \in 0..next_prep_id : ExecuteStart(c, preparation_id)
    \/ ExecuteLookupMaps(c)
    \/ ExecuteConsume(c)
    \/ ExecutePush(c)
    \/ ExecuteRead(c)
    \/ ExecuteDelete(c)

Next ==
    \E c \in Calls :
        \/ prepare_bulk_operations(c)
        \/ execute_bulk_operations(c)

Spec == Init /\ [][Next]_vars

\* =========================================================================
\* Batch processing on its own: one batch, drawn from every sequence of at
\* most MaxBatchLen operations, is processed against a ledger snapshot, both
\* by process_bulk_operations directly and by one prepare_bulk_operations
\* call.
\* =========================================================================
BulkCreates ==
    { Create(type, date, "acc-1", 500, to_account, None) :
        type \in {"expense", "transfer"}, date \in {GoodDate, BadDate},
        to_account \in {None, Some("acc-2")} }
    \cup { Create("income", GoodDate, "acc-3", 7, None, None),
           Create("expense", GoodDate, "acc-1", -5, None, None) }

BulkUpdates ==
    { Update(id, None, Some(200), None) : id \in {1, UnknownTx} }
    \cup { Update(1, None, Some(-5), None) }
    \cup { Update(id, Some(BadDate), None, None) : id \in {1, UnknownTx} }
    \cup { Update(id, None, None, Some(account)) :
             id \in {1, UnknownTx}, account \in {"acc-2", "acc-3"} }

BulkDeletes == { Delete(id) : id \in {1, 2, UnknownTx} }

BulkOps == BulkCreates \cup BulkUpdates \cup BulkDeletes

SeqsUpTo(S, n) == UNION { [1..k -> S] : k \in 0..n }

sample_transfer(id) ==
    [sample_transaction(id, 100, 15) EXCEPT !.income_account = "acc-2",
                                            !.income_instrument = 2]

Snapshots ==
    { <<sample_transaction(1, 100, 0), sample_transfer(2)>>,
      <<sample_transaction(1, 0, 300)>> }

BulkInit ==
    /\ transactions \in Snapshots
    /\ preparations = <<>>
    /\ calls = [c \in Calls |-> IdleCall]
    /\ started = 0
    /\ next_tx_id = 3
    /\ next_prep_id = 1
    /\ clock = 1
    /\ writes = <<>>
    /\ bulk \in { [operations |-> ops, result |-> None] : ops \in SeqsUpTo(BulkOps, MaxBatchLen) }
    /\ tags = sample_tags
    /\ next_tag_id = 2
    /\ lock = 0

BulkProcess ==
    /\ bulk.result = None
    /\ bulk' = [bulk EXCEPT !.result =
                  Some(process_bulk_operations(bulk.operations, transactions,
                                               build_lookup_maps, clock, next_tx_id))]
    /\ UNCHANGED <<transactions, preparations, calls, started, next_tx_id,
                   next_prep_id, clock, writes, tags, next_tag_id, lock>>

BulkNext ==
    \/ BulkProcess
    \/ PrepareStart(1, bulk.operations)
    \/ PrepareLoad(1)
    \/ PrepareStage(1)

SpecBulk == BulkInit /\ [][BulkNext]_vars

\* =========================================================================
\* The resolution functions on their own: one input of one function is drawn
\* and the function is applied to it.
\* =========================================================================
PureAccounts == {"acc-1", "acc-2", "acc-3"}

\* Ledger transactions over every sign of the two amounts and every pair of
\* accounts that carry an instrument; the income side is in the account's
\* instrument or in one given explicitly when the transaction was created;
\* the transaction has a tag, a payee and a comment, or none of them.
PureTransactions ==
    { [sample_transaction(1, outcome, income) EXCEPT
          !.outcome_account = outcome_account,
          !.outcome_instrument = AccountInstrument[outcome_account],
          !.income_account = income_account,
          !.income_instrument = IF explicit = None THEN AccountInstrument[income_account]
                                ELSE Unwrap(explicit),
          !.tag = IF described THEN Some(<<2>>) ELSE None,
          !.payee = IF described THEN Some("market") ELSE None,
          !.comment = IF described THEN Some("memo") ELSE None] :
        outcome \in {-5, 0, 100}, income \in {-5, 0, 15},
        outcome_account \in {"acc-1", "acc-2"}, income_account \in {"acc-1", "acc-2"},
        explicit \in {None, Some(8)}, described \in {FALSE, TRUE} }

PureCreates ==
    { [transaction_type |-> type, date |-> GoodDate, account_id |-> account,
       amount |-> amount, to_account_id |-> to_account, to_amount |-> to_amount,
       instrument_id |-> instrument, to_instrument_id |-> to_instrument,
       tag_ids |-> None, payee |-> None, comment |-> None] :
        type \in {"expense", "income", "transfer"}, account \in PureAccounts,
        amount \in {-5, 0, 500},
        to_account \in {None} \cup {Some(a) : a \in PureAccounts},
        to_amount \in {None, Some(0), Some(300)},
        instrument \in {None, Some(7)}, to_instrument \in {None, Some(8)} }

PureUpdates ==
    { [id |-> 1, date |-> date, amount |-> amount, to_amount |-> to_amount,
       account_id |-> account, to_account_id |-> to_account,
       tag_ids |-> None, payee |-> None, comment |-> None] :
        date \in {None, Some(GoodDate), Some(BadDate)},
        amount \in {None, Some(-5), Some(0), Some(750)},
        to_amount \in {None, Some(20)},
        account \in {None} \cup {Some(a) : a \in PureAccounts},
        to_account \in {None, Some("acc-1"), Some("acc-2")} }
    \cup
    { [id |-> 1, date |-> None, amount |-> None, to_amount |-> None,
       account_id |-> None, to_account_id |-> None,
       tag_ids |-> tag_ids, payee |-> payee, comment |-> comment] :
        tag_ids \in {None, Some(<<1>>)}, payee \in {None, Some(""), Some("shop")},
        comment \in {None, Some(""), Some("note")} }

PureInputs ==
    { [fn |-> "classify_transaction", tx |-> tx, result |-> None] :
        tx \in PureTransactions }
    \cup
    { [fn |-> "resolve_instrument", account_id |-> account, explicit |-> explicit,
       result |-> None] :
        account \in PureAccounts \cup {"acc-9"}, explicit \in {None, Some(1), Some(7)} }
    \cup
    { [fn |-> "resolve_sides", params |-> params, result |-> None] :
        params \in PureCreates }
    \cup
    { [fn |-> "apply_update", tx |-> tx, params |-> params, result |-> None] :
        tx \in PureTransactions, params \in PureUpdates }

PureBuilds ==
    { [fn |-> "build_transaction", params |-> [params EXCEPT !.date = date],
       result |-> None] :
        params \in PureCreates, date \in {GoodDate, BadDate} }

PureInit ==
    /\ transactions = <<>>
    /\ preparations = <<>>
    /\ calls = [c \in Calls |-> IdleCall]
    /\ started = 0
    /\ next_tx_id = 3
    /\ next_prep_id = 1
    /\ clock = 1
    /\ writes = <<>>
    /\ bulk \in PureInputs \cup PureBuilds
    /\ tags = sample_tags
    /\ next_tag_id = 2
    /\ lock = 0

PureFrame ==
    UNCHANGED <<transactions, preparations, calls, started, next_tx_id,
                next_prep_id, clock, writes, tags, next_tag_id, lock>>

Classify ==
    /\ bulk.fn = "classify_transaction" /\ bulk.result = None
    /\ bulk' = [bulk EXCEPT !.result = Some(classify_transaction(bulk.tx))]
    /\ PureFrame

ResolveInstrument ==
    /\ bulk.fn = "resolve_instrument" /\ bulk.result = None
    /\ bulk' = [bulk EXCEPT !.result =
                  Some(resolve_instrument(build_lookup_maps, bulk.account_id, bulk.explicit))]
    /\ PureFrame

ResolveSides ==
    /\ bulk.fn = "resolve_sides" /\ bulk.result = None
    /\ bulk' = [bulk EXCEPT !.result = Some(resolve_sides(bulk.params, build_lookup_maps))]
    /\ PureFrame

ApplyUpdate ==
    /\ bulk.fn = "apply_update" /\ bulk.result = None
    /\ bulk' = [bulk EXCEPT !.result =
                  Some(apply_update(bulk.tx, bulk.params, build_lookup_maps, clock))]
    /\ PureFrame

BuildTransaction ==
    /\ bulk.fn = "build_transaction" /\ bulk.result = None
    /\ bulk' = [bulk EXCEPT !.result =
                  Some(build_transaction(bulk.params, build_lookup_maps, clock, next_tx_id))]
    /\ PureFrame

PureNext ==
    Classify \/ ResolveInstrument \/ ResolveSides \/ ApplyUpdate \/ BuildTransaction

SpecPure == PureInit /\ [][PureNext]_vars

\* =========================================================================
\* Tag creation: create_tag and create_category calls on the ledger's tags.
\* =========================================================================
TagCalls == 1..MaxTagCalls

\* CreateTagParams: a title and an optional parent.
CreateTag(title, parent_tag_id) == [title |-> title, parent_tag_id |-> parent_tag_id]

TagRequests ==
    { CreateTag(title, None) :
        title \in { <<"g", "R">>, <<" ", "G", "r", " ">>, <<" ">>, <<"r">>, <<"R", " ">> } }
    \cup { CreateTag(<<"r">>, Some(parent)) : parent \in {1, UnknownTag} }

IdleTagCall ==
    [tool |-> "idle", pc |-> "idle", params |-> CreateTag(<<>>, None),
     normalized_title |-> <<>>, existing_tag |-> None, new_tag |-> None,
     result |-> None, tags_at_entry |-> <<>>, entered_with |-> {}]

\* TagResponse::from_tag
TagResponse(tag) == [id |-> tag.id, title |-> tag.title, parent |-> tag.parent]

TagInFlight == {c \in TagCalls : calls[c].pc \notin {"idle", "done"}}

TagInit ==
    /\ transactions = <<>>
    /\ preparations = <<>>
    /\ calls = [c \in TagCalls |-> IdleTagCall]
    /\ started = 0
    /\ next_tx_id = 3
    /\ next_prep_id = 1
    /\ clock = 1
    /\ writes = <<>>
    /\ bulk = [operations |-> <<>>, result |-> None]
    /\ tags = sample_tags
    /\ next_tag_id = 2
    /\ lock = 0

\* Call entry of create_tag / create_category: normalize_tag_title(..)?
TagStart(c, tool, params) ==
    /\ c = started + 1
    /\ c \in TagCalls
    /\ started' = c
    /\ LET normalized_title == normalize_tag_title(params.title)
           entered == [calls[c] EXCEPT !.tool = tool, !.params = params,
                                       !.tags_at_entry = tags,
                                       !.entered_with = TagInFlight]
       IN
       IF normalized_title.ok
       THEN calls' = [calls EXCEPT ![c] =
                        [entered EXCEPT !.normalized_title = normalized_title.val,
                                        !.pc = "tags"]]
       ELSE calls' = [calls EXCEPT ![c] =
                        [entered EXCEPT !.pc = "done",
                                        !.result = Some(Err(normalized_title.err))]]
    /\ UNCHANGED <<transactions, preparations, next_tx_id, next_prep_id, clock,
                   writes, bulk, tags, next_tag_id, lock>>

\* self.client.tags().await?, the search for an existing tag and, when there
\* is none, validate_parent_tag_exists(..)?
TagRead(c) ==
    /\ calls[c].tool \in {"create_tag", "create_category"}
    /\ calls[c].pc = "tags"
    /\ \/ calls' = Finish(c, Err(zen_err))
       \/ LET existing_tag == find_tag_by_title_case_insensitive(tags, calls[c].normalized_title)
              parent == validate_parent_tag_exists(tags, calls[c].params.parent_tag_id)
          IN
          IF IsSome(existing_tag)
          THEN calls' = [calls EXCEPT ![c].existing_tag = existing_tag,
                                      ![c].pc = "existing"]
          ELSE IF ~parent.ok THEN calls' = Finish(c, Err(parent.err))
          ELSE calls' = [calls EXCEPT ![c].pc = "build"]
    /\ UNCHANGED <<transactions, preparations, started, next_tx_id, next_prep_id,
                   clock, writes, bulk, tags, next_tag_id, lock>>

\* The existing tag was found: self.lookup_maps().await?, then the response.
TagExisting(c) ==
    /\ calls[c].tool \in {"create_tag", "create_category"}
    /\ calls[c].pc = "existing"
    /\ \/ calls' = Finish(c, Err(zen_err))
       \/ calls' = Finish(c, Ok(TagResponse(Unwrap(calls[c].existing_tag))))
    /\ UNCHANGED <<transactions, preparations, started, next_tx_id, next_prep_id,
                   clock, writes, bulk, tags, next_tag_id, lock>>

\* self.current_user_id().await?, build_tag(..) and self.lookup_maps().await?
\* (reads of users, accounts, tags and instruments for the preview; the tag
\* list read here is used for the preview only).
TagBuild(c) ==
    /\ calls[c].tool \in {"create_tag", "create_category"}
    /\ calls[c].pc = "build"
    /\ \/ /\ calls' = Finish(c, Err(zen_err))
          /\ UNCHANGED <<clock, next_tag_id, lock>>
       \/ /\ calls' = [calls EXCEPT
                         ![c].new_tag = Some(build_tag(calls[c].params, 0,
                                                       calls[c].normalized_title,
                                                       clock, next_tag_id)),
                         ![c].pc = "push"]
          /\ clock' = clock + 1
          /\ next_tag_id' = next_tag_id + 1
    /\ UNCHANGED <<transactions, preparations, started, next_tx_id, next_prep_id,
                   writes, bulk, tags, lock>>

TagWriteRecord(c, arg, ok) == [call |-> c, kind |-> "push_tags", arg |-> arg, ok |-> ok]

\* self.client.push_tags(vec![new_tag]).await?, then the preview
TagPush(c) ==
    /\ calls[c].tool \in {"create_tag", "create_category"}
    /\ calls[c].pc = "push"
    /\ LET new_tag == Unwrap(calls[c].new_tag) IN
       \/ /\ tags' = upsert(tags, new_tag)
          /\ writes' = Append(writes, TagWriteRecord(c, <<new_tag>>, TRUE))
          /\ calls' = Finish(c, Ok(TagResponse(new_tag)))
       \/ /\ tags' = tags
          /\ writes' = Append(writes, TagWriteRecord(c, <<new_tag>>, FALSE))
          /\ calls' = Finish(c, Err(zen_err))
    /\ UNCHANGED <<transactions, preparations, started, next_tx_id, next_prep_id,
                   clock, bulk, next_tag_id, lock>>

create_tag_internal(c) ==
    \/ TagRead(c)
    \/ TagExisting(c)
    \/ TagBuild(c)
    \/ TagPush(c)

create_tag(c) == \E params \in TagRequests : TagStart(c, "create_tag", params)

create_category(c) == \E params \in TagRequests : TagStart(c, "create_category", params)

TagNext ==
    \E c \in TagCalls :
        \/ create_tag(c)
        \/ create_category(c)
        \/ create_tag_internal(c)

SpecTags == TagInit /\ [][TagNext]_vars

\* =========================================================================
\* Listing: one list_transactions call on a ledger.
\* =========================================================================
\* The limits the documentation of ListTransactionsParams.limit states.
DefaultLimit == 100
MaxLimit == 500

\* NaiveDate ordering
date_lt(a, b) ==
    \/ a.year < b.year
    \/ a.year = b.year /\ a.month < b.month
    \/ a.year = b.year /\ a.month = b.month /\ a.day < b.day

date_le(a, b) == a = b \/ date_lt(a, b)

\* The dates of a set in the order of the sort direction.
RECURSIVE ordered_dates(_, _)
ordered_dates(dates, sort_dir) ==
    IF dates = {} THEN <<>>
    ELSE LET first == CHOOSE d \in dates :
                          \A e \in dates \ {d} :
                              IF sort_dir = "asc" THEN date_lt(d, e) ELSE date_lt(e, d)
         IN <<first>> \o ordered_dates(dates \ {first}, sort_dir)

RECURSIVE concat_by_date(_, _)
concat_by_date(list, dates) ==
    IF dates = <<>> THEN <<>>
    ELSE SelectSeq(list, LAMBDA tx : tx.date = Head(dates))
         \o concat_by_date(list, Tail(dates))

\* Vec::sort_by on the date, in either direction: a stable sort, so the
\* transactions of one date keep their order.
sort_by_date(list, sort_dir) ==
    concat_by_date(list, ordered_dates({list[i].date : i \in 1..Len(list)}, sort_dir))

is_uncategorized(tx) == tx.tag = None \/ Unwrap(tx.tag) = <<>>

filter_by_transaction_type(list, filter_type) ==
    IF IsSome(filter_type)
    THEN SelectSeq(list, LAMBDA tx : classify_transaction(tx) = Unwrap(filter_type))
    ELSE list

\* client.filter_transactions with the date range of the filter (both ends
\* inclusive); the other criteria of the filter are not modelled.
filter_transactions(store, filter) ==
    SelectSeq(store, LAMBDA tx :
        /\ IsSome(filter.date_from) => date_le(Unwrap(filter.date_from), tx.date)
        /\ IsSome(filter.date_to) => date_le(tx.date, Unwrap(filter.date_to)))

\* Vec::truncate
truncate(list, len) == IF len < Len(list) THEN SubSeq(list, 1, len) ELSE list

\* The tail of list_transactions on the transactions the client returned:
\* retain the uncategorized, filter by type, sort by date ...
list_sorted(list, params) ==
    LET sort_dir == IF IsSome(params.sort) THEN Unwrap(params.sort) ELSE "desc"
        retained == IF params.uncategorized = Some(TRUE)
                    THEN SelectSeq(list, is_uncategorized) ELSE list
    IN sort_by_date(filter_by_transaction_type(retained, params.transaction_type), sort_dir)

\* ... and truncate to the limit when one is given.
list_page(list, params) ==
    LET sorted == list_sorted(list, params) IN
    IF IsSome(params.limit) THEN truncate(sorted, Unwrap(params.limit)) ELSE sorted

\* TransactionResponse::from_transaction
TransactionResponse(tx) == [id |-> tx.id, date |-> tx.date]

ListRequests ==
    { [date_from |-> date_from, date_to |-> date_to, limit |-> limit, offset |-> offset,
       uncategorized |-> uncategorized, transaction_type |-> transaction_type,
       sort |-> sort] :
        date_from \in {None, Some(GoodDate), Some(BadDate)},
        date_to \in {None, Some(GoodDate)},
        limit \in {None, Some(0), Some(2), Some(MaxLimit + 100)},
        offset \in {None, Some(0), Some(1)},
        uncategorized \in {None, Some(TRUE)},
        transaction_type \in {None, Some("expense"), Some("transfer")},
        sort \in {None, Some("asc"), Some("desc")} }

dated(tx, day, tag) == [tx EXCEPT !.date.day = day, !.tag = tag]

\* The requests that select by no date, tag or kind.
PlainRequest(params) ==
    /\ params.date_from = None /\ params.date_to = None
    /\ params.uncategorized = None /\ params.transaction_type = None

\* A ledger with two transactions on one day, and ledgers with more
\* transactions than the default and the maximal limit.
ListLedgers ==
    { << dated(sample_transaction(1, 100, 0), 15, None),
         dated(sample_transaction(2, 0, 300), 16, Some(<<1>>)),
         dated(sample_transfer(3), 14, None),
         dated(sample_transaction(4, 50, 0), 15, None) >>,
      [i \in 1..(DefaultLimit + 1) |-> sample_transaction(i, 100, 0)],
      [i \in 1..(MaxLimit + 1) |-> sample_transaction(i, 100, 0)] }

ListInit ==
    /\ transactions \in ListLedgers
    /\ preparations = <<>>
    /\ calls = [c \in Calls |-> IdleCall]
    /\ started = 0
    /\ next_tx_id = 3
    /\ next_prep_id = 1
    /\ clock = 1
    /\ writes = <<>>
    /\ bulk \in { [fn |-> "list_transactions", params |-> params, pc |-> "start",
                   filter |-> [date_from |-> None, date_to |-> None], result |-> None] :
                  params \in ListRequests }
    /\ Len(transactions) > DefaultLimit => PlainRequest(bulk.params)
    /\ tags = sample_tags
    /\ next_tag_id = 2
    /\ lock = 0

\* Call entry: self.lookup_maps().await?, then the filter is built, the two
\* dates parsed with parse_date(..)?
ListStart ==
    /\ bulk.fn = "list_transactions" /\ bulk.pc = "start"
    /\ \/ bulk' = [bulk EXCEPT !.pc = "done", !.result = Some(Err(zen_err))]
       \/ LET date_from == IF IsSome(bulk.params.date_from)
                           THEN parse_date(Unwrap(bulk.params.date_from)) ELSE Ok(<<>>)
              date_to == IF IsSome(bulk.params.date_to)
                         THEN parse_date(Unwrap(bulk.params.date_to)) ELSE Ok(<<>>)
          IN
          IF ~date_from.ok
          THEN bulk' = [bulk EXCEPT !.pc = "done", !.result = Some(Err(date_from.err))]
          ELSE IF ~date_to.ok
          THEN bulk' = [bulk EXCEPT !.pc = "done", !.result = Some(Err(date_to.err))]
          ELSE bulk' = [bulk EXCEPT
                          !.pc = "filter",
                          !.filter = [date_from |-> IF IsSome(bulk.params.date_from)
                                                    THEN Some(date_from.val) ELSE None,
                                      date_to |-> IF IsSome(bulk.params.date_to)
                                                  THEN Some(date_to.val) ELSE None]]
    /\ PureFrame

\* self.client.filter_transactions(&filter).await?, then the page and the
\* response.
ListFilter ==
    /\ bulk.fn = "list_transactions" /\ bulk.pc = "filter"
    /\ \/ bulk' = [bulk EXCEPT !.pc = "done", !.result = Some(Err(zen_err))]
       \/ LET page == list_page(filter_transactions(transactions, bulk.filter), bulk.params)
          IN bulk' = [bulk EXCEPT
                        !.pc = "done",
                        !.result = Some(Ok([i \in 1..Len(page) |-> TransactionResponse(page[i])]))]
    /\ PureFrame

list_transactions == ListStart \/ ListFilter

SpecList == ListInit /\ [][list_transactions]_vars

\* =========================================================================
\* The preparation store step by step: the two critical sections of the
\* bulk tools are split into taking the mutex and the operation that ends
\* with its release, an execute call can be dropped while it awaits, and
\* delete_transaction calls change the ledger next to the bulk tools.
\* =========================================================================
\* A batch whose delete comes before its update, a batch of one create and
\* a batch of one delete.
StoreBatches ==
    { <<Delete(2), Update(1, None, Some(200), None)>>,
      <<Create("expense", GoodDate, "acc-1", 500, None, None)>>,
      <<Delete(1)>> }

StoreInit == Init

\* self.preparations.lock(): std::sync::Mutex, taken when it is free.
StageLock(c) ==
    /\ calls[c].tool = "prepare"
    /\ calls[c].pc = "stage"
    /\ lock = 0
    /\ lock' = c
    /\ calls' = [calls EXCEPT ![c].pc = "stage_locked"]
    /\ UNCHANGED <<transactions, preparations, started, next_tx_id, next_prep_id,
                   clock, writes, bulk, tags, next_tag_id>>

\* Faulty variant: the key is not fresh, so the insert replaces the batch
\* staged under it.
StageInsertReusesKey(c) ==
    /\ calls[c].tool = "prepare"
    /\ calls[c].pc = "stage_locked"
    /\ lock = c
    /\ lock' = 0
    /\ LET preparation_id == 1
           prepared == Unwrap(calls[c].prepared)
       IN
       /\ preparations' = [k \in DOMAIN preparations \cup {preparation_id} |->
                             IF k = preparation_id THEN prepared ELSE preparations[k]]
       /\ next_prep_id' = next_prep_id + 1
       /\ calls' = Finish(c, Ok([preparation_id |-> preparation_id,
                                 created |-> prepared.created_count,
                                 updated |-> prepared.updated_count,
                                 deleted |-> Len(prepared.to_delete)]))
    /\ UNCHANGED <<transactions, started, next_tx_id, clock, writes, bulk, tags,
                   next_tag_id>>

\* .insert(preparation_id, prepared): the guard is a temporary of the
\* statement and is dropped at its end; then the preview is returned.
StageInsert(c) ==
    /\ calls[c].tool = "prepare"
    /\ calls[c].pc = "stage_locked"
    /\ lock = c
    /\ lock' = 0
    /\ LET preparation_id == next_prep_id
           prepared == Unwrap(calls[c].prepared)
       IN
       /\ preparations' = [k \in DOMAIN preparations \cup {preparation_id} |->
                             IF k = preparation_id THEN prepared ELSE preparations[k]]
       /\ next_prep_id' = next_prep_id + 1
       /\ calls' = Finish(c, Ok([preparation_id |-> preparation_id,
                                 created |-> prepared.created_count,
                                 updated |-> prepared.updated_count,
                                 deleted |-> Len(prepared.to_delete)]))
    /\ UNCHANGED <<transactions, started, next_tx_id, clock, writes, bulk, tags,
                   next_tag_id>>

ConsumeLock(c) ==
    /\ calls[c].tool = "execute"
    /\ calls[c].pc = "consume"
    /\ lock = 0
    /\ lock' = c
    /\ calls' = [calls EXCEPT ![c].pc = "consume_locked"]
    /\ UNCHANGED <<transactions, preparations, started, next_tx_id, next_prep_id,
                   clock, writes, bulk, tags, next_tag_id>>

\* Faulty variant: the guard lives as long as the batch taken from the
\* store, across the ledger calls that follow.
ConsumeRemoveKeepsGuard(c) ==
    /\ calls[c].tool = "execute"
    /\ calls[c].pc = "consume_locked"
    /\ lock = c
    /\ LET preparation_id == calls[c].preparation_id IN
       IF preparation_id \in DOMAIN preparations
       THEN /\ preparations' = [k \in DOMAIN preparations \ {preparation_id} |-> preparations[k]]
            /\ calls' = [Advance(c, AfterConsume(preparations[preparation_id]),
                                 preparations[preparation_id])
                            EXCEPT ![c].lookup = "found"]
            /\ lock' = lock
       ELSE /\ preparations' = preparations
            /\ calls' = [calls EXCEPT ![c].pc = "done", ![c].lookup = "missing",
                           ![c].result = Some(Err(invalid_params(
                               "preparation not found or already executed")))]
            /\ lock' = 0
    /\ UNCHANGED <<transactions, started, next_tx_id, next_prep_id, clock, writes,
                   bulk, tags, next_tag_id>>

\* .remove(&preparation_id).ok_or_else(..)?: the guard is dropped at the end
\* of the statement, found or not.
ConsumeRemove(c) ==
    /\ calls[c].tool = "execute"
    /\ calls[c].pc = "consume_locked"
    /\ lock = c
    /\ lock' = 0
    /\ LET preparation_id == calls[c].preparation_id IN
       IF preparation_id \in DOMAIN preparations
       THEN /\ preparations' = [k \in DOMAIN preparations \ {preparation_id} |-> preparations[k]]
            /\ calls' = [Advance(c, AfterConsume(preparations[preparation_id]),
                                 preparations[preparation_id])
                            EXCEPT ![c].lookup = "found"]
       ELSE /\ preparations' = preparations
            /\ calls' = [calls EXCEPT ![c].pc = "done", ![c].lookup = "missing",
                           ![c].result = Some(Err(invalid_params(
                               "preparation not found or already executed")))]
    /\ UNCHANGED <<transactions, started, next_tx_id, next_prep_id, clock, writes,
                   bulk, tags, next_tag_id>>

\* The program points at which a call awaits a ledger client call.
AwaitPoints == {"transactions", "lookup_maps", "push", "read", "delete"}

cancelled == [code |-> "cancelled", msg |-> "request dropped"]

\* Faulty variant: dropping the call puts the batch it took back into the
\* store.
ExecuteCancelRestores(c) ==
    /\ calls[c].tool = "execute"
    /\ calls[c].pc \in AwaitPoints
    /\ calls' = Finish(c, Err(cancelled))
    /\ preparations' =
          IF IsSome(calls[c].prepared)
          THEN [k \in DOMAIN preparations \cup {calls[c].preparation_id} |->
                   IF k = calls[c].preparation_id THEN Unwrap(calls[c].prepared)
                   ELSE preparations[k]]
          ELSE preparations
    /\ UNCHANGED <<transactions, started, next_tx_id, next_prep_id,
                   clock, writes, bulk, tags, next_tag_id, lock>>

\* The future of an execute call is dropped while it awaits: the call ends
\* there and the ledger call it was waiting for has no effect.
ExecuteCancel(c) ==
    /\ calls[c].tool = "execute"
    /\ calls[c].pc \in AwaitPoints
    /\ calls' = Finish(c, Err(cancelled))
    /\ UNCHANGED <<transactions, preparations, started, next_tx_id, next_prep_id,
                   clock, writes, bulk, tags, next_tag_id, lock>>

\* delete_transaction: call entry, self.lookup_maps().await? and
\* self.client.transactions().await? (the transaction found there is used
\* for the response only).
DeleteStart(c, id) ==
    /\ c = started + 1
    /\ c \in Calls
    /\ started' = c
    /\ \/ calls' = [calls EXCEPT ![c].tool = "delete_transaction",
                                 ![c].operations = <<Delete(id)>>,
                                 ![c].ledger_read = TRUE,
                                 ![c].all_transactions = Some(transactions),
                                 ![c].pc = "delete"]
       \/ calls' = [calls EXCEPT ![c].tool = "delete_transaction",
                                 ![c].operations = <<Delete(id)>>,
                                 ![c].ledger_read = TRUE,
                                 ![c].pc = "done",
                                 ![c].result = Some(Err(zen_err))]
    /\ UNCHANGED <<transactions, preparations, next_tx_id, next_prep_id, clock,
                   writes, bulk, tags, next_tag_id, lock>>

\* self.client.delete_transactions(&[delete_id]).await?, then the response
DeleteWrite(c) ==
    /\ calls[c].tool = "delete_transaction"
    /\ calls[c].pc = "delete"
    /\ LET id == calls[c].operations[1].params.id IN
       \/ /\ transactions' = delete_transactions(transactions, <<id>>)
          /\ writes' = Append(writes, WriteRecord(c, "delete", <<id>>, TRUE))
          /\ calls' = Finish(c, Ok([deleted |-> id,
                                    details |-> find_transaction(
                                        Unwrap(calls[c].all_transactions), id)]))
       \/ /\ transactions' = transactions
          /\ writes' = Append(writes, WriteRecord(c, "delete", <<id>>, FALSE))
          /\ calls' = Finish(c, Err(zen_err))
    /\ UNCHANGED <<preparations, started, next_tx_id, next_prep_id, clock, bulk,
                   tags, next_tag_id, lock>>

delete_transaction(c) ==
    \/ DeleteStart(c, 1)
    \/ DeleteWrite(c)

StoreNext ==
    \E c \in Calls :
        \/ \E operations \in StoreBatches : PrepareStart(c, operations)
        \/ PrepareLoad(c)
        \/ StageLock(c)
        \/ StageInsert(c)
        \/ \E preparation_id \in 0..next_prep_id : ExecuteStart(c, preparation_id)
        \/ ExecuteLookupMaps(c)
        \/ ConsumeLock(c)
        \/ ConsumeRemove(c)
        \/ ExecutePush(c)
        \/ ExecuteRead(c)
        \/ ExecuteDelete(c)
        \/ ExecuteCancel(c)
        \/ delete_transaction(c)

SpecStore == StoreInit /\ [][StoreNext]_vars

\* =========================================================================
\* Properties
\* =========================================================================
NotFoundError == invalid_params("preparation not found or already executed")

IsPrepare(c) == calls[c].tool = "prepare"
IsExecute(c) == calls[c].tool = "execute"
Done(c) == calls[c].pc = "done"
Succeeded(c) == Done(c) /\ calls[c].result[1].ok
Failed(c) == Done(c) /\ ~calls[c].result[1].ok
FailedWith(c, e) == Failed(c) /\ calls[c].result[1].err = e

\* Call c obtained the staged batch from the preparation store.
Obtained(c) == IsExecute(c) /\ calls[c].lookup = "found"
\* Call c performed the store lookup (its lookup_maps reads succeeded).
LookedUp(c) == IsExecute(c) /\ calls[c].lookup # "none"
ExecutesOf(k) == {c \in Calls : IsExecute(c) /\ calls[c].preparation_id = k}
ObtainersOf(k) == {c \in ExecutesOf(k) : Obtained(c)}
WritesOf(c) == SelectSeq(writes, LAMBDA w : w.call = c)
WritesFor(k, kind) == SelectSeq(writes, LAMBDA w : w.preparation_id = k /\ w.kind = kind)

\* C1 as stated: after prepare has returned k, exactly one execute(k) obtains
\* the batch, every execute(k) entered after that fails with not-found, and an
\* execute with a key no prepare returned fails with not-found.
C1_SingleUseAsStated ==
    /\ \A k \in ReturnedKeys :
          Cardinality(ObtainersOf(k)) = (IF k \in DOMAIN preparations THEN 0 ELSE 1)
    /\ \A c \in Calls :
          IsExecute(c) /\ Done(c)
          /\ (calls[c].entered_after_consume \/ calls[c].preparation_id \notin ReturnedKeys)
          => FailedWith(c, NotFoundError)

\* C1 amended: a returned key k is obtained by exactly one execute(k), the
\* first to reach the store lookup, and stays staged until then; an execute
\* entered after k was consumed, or with a key no prepare returned, never
\* obtains a batch and fails: with not-found once it reaches the store lookup,
\* and with the internal ledger error when its lookup_maps read fails first.
C1_SingleUse ==
    /\ \A k \in ReturnedKeys :
          Cardinality(ObtainersOf(k)) = (IF k \in DOMAIN preparations THEN 0 ELSE 1)
    /\ \A c \in Calls :
          IsExecute(c) /\ calls[c].lookup = "missing" => FailedWith(c, NotFoundError)
    /\ \A c \in Calls :
          IsExecute(c) /\ Done(c)
          /\ (calls[c].entered_after_consume \/ calls[c].preparation_id \notin ReturnedKeys)
          => /\ ~Obtained(c)
             /\ IF LookedUp(c) THEN FailedWith(c, NotFoundError)
                ELSE FailedWith(c, zen_err)

\* C1 witness: a returned key was obtained by one execute, and an execute of
\* the same key entered afterwards has failed with not-found.
C1_Witness ==
    \E k \in ReturnedKeys : \E c, d \in ExecutesOf(k) :
        /\ Obtained(c)
        /\ calls[d].entered_after_consume
        /\ FailedWith(d, NotFoundError)

\* Two execute calls of the same returned key that overlap in time, the key
\* being used by no other execute call.
RacingPair(c, d) ==
    /\ c < d
    /\ IsExecute(c) /\ IsExecute(d)
    /\ calls[c].preparation_id = calls[d].preparation_id
    /\ calls[c].preparation_id \in ReturnedKeys
    /\ c \in calls[d].entered_with
    /\ ExecutesOf(calls[c].preparation_id) = {c, d}

\* C2 as stated: of two concurrent executes of the same staged key exactly one
\* obtains the batch and the other observes not-found.
C2_RaceAsStated ==
    \A c, d \in Calls :
        RacingPair(c, d) /\ Done(c) /\ Done(d)
        => \/ Obtained(c) /\ FailedWith(d, NotFoundError)
           \/ Obtained(d) /\ FailedWith(c, NotFoundError)

\* C2 amended: of two concurrent executes of the same staged key that both
\* reach the store lookup, exactly one obtains the batch and the other
\* observes not-found; never both obtain it, whatever the interleaving.
C2_Race ==
    \A c, d \in Calls :
        RacingPair(c, d)
        => /\ ~(Obtained(c) /\ Obtained(d))
           /\ LookedUp(c) /\ LookedUp(d)
              => \/ Obtained(c) /\ FailedWith(d, NotFoundError)
                 \/ Obtained(d) /\ FailedWith(c, NotFoundError)

\* C2 witness: two overlapping executes of one key; both were at the store
\* lookup, one obtained the batch, the other got not-found.
C2_Witness ==
    \E c, d \in Calls :
        /\ RacingPair(c, d)
        /\ ~calls[d].entered_after_consume
        /\ \/ Obtained(c) /\ FailedWith(d, NotFoundError)
           \/ Obtained(d) /\ FailedWith(c, NotFoundError)

\* C3: the batch staged under one preparation id is handed to
\* push_transactions at most once and to delete_transactions at most once, the
\* ledger writes of a call are those of the batch it obtained, and an execute
\* that fails with not-found issues no ledger write.
C3_AtMostOnce ==
    /\ \A k \in 0..next_prep_id :
          /\ Len(WritesFor(k, "push")) <= 1
          /\ Len(WritesFor(k, "delete")) <= 1
    /\ \A i \in 1..Len(writes) : Obtained(writes[i].call)
    /\ \A c \in Calls :
          IsExecute(c) /\ FailedWith(c, NotFoundError) => WritesOf(c) = <<>>

\* C3 witness: a batch was pushed, and a second execute of its key has failed
\* with not-found without writing.
C3_Witness ==
    \E k \in ReturnedKeys : \E c \in ExecutesOf(k) :
        /\ Len(WritesFor(k, "push")) = 1
        /\ FailedWith(c, NotFoundError)
        /\ WritesOf(c) = <<>>

\* A step taken by prepare call c.
PrepareStep(c) == calls'[c] # calls[c] /\ calls'[c].tool = "prepare"
\* The step in which prepare call c returns its preparation_id.
PrepareReturnsKey(c) ==
    PrepareStep(c) /\ calls'[c].pc = "done" /\ calls'[c].result[1].ok

\* C4: no step of a prepare call, successful or failing, changes the ledger's
\* transactions or issues a push_transactions / delete_transactions call.
C4_PrepareNeverWrites ==
    [][\A c \in Calls :
          PrepareStep(c) => transactions' = transactions /\ writes' = writes]_vars

\* C4 witness: one prepare has returned a preparation_id and another has
\* failed, and no ledger write has been issued.
C4_Witness ==
    \E c, d \in Calls :
        /\ IsPrepare(c) /\ Succeeded(c) /\ Unwrap(calls[c].prepared).to_push # <<>>
        /\ IsPrepare(d) /\ Failed(d)
        /\ writes = <<>>

PushIndex(c) ==
    LET idx == {i \in 1..Len(writes) :
                  writes[i].call = c /\ writes[i].kind = "push" /\ writes[i].ok} IN
    IF idx = {} THEN 0 ELSE CHOOSE i \in idx : TRUE

\* An execute call that returned an error after its push had succeeded.
FailedAfterPush(c) == IsExecute(c) /\ Failed(c) /\ PushIndex(c) > 0

\* C6: an execute whose push succeeded and whose deletion step (the read or
\* delete_transactions) failed returns the ledger error and has issued no
\* write besides the push and the failed delete; as long as no other call
\* writes afterwards, the pushed transactions are in the ledger as pushed.
C6_NoRollback ==
    \A c \in Calls :
        FailedAfterPush(c)
        => /\ FailedWith(c, zen_err)
           /\ \/ WritesOf(c) = <<writes[PushIndex(c)]>>
              \/ /\ Len(WritesOf(c)) = 2
                 /\ WritesOf(c)[1] = writes[PushIndex(c)]
                 /\ WritesOf(c)[2].kind = "delete" /\ ~WritesOf(c)[2].ok
           /\ (\A j \in (PushIndex(c) + 1)..Len(writes) : ~writes[j].ok)
              => push_transactions(transactions, Unwrap(calls[c].prepared).to_push)
                 = transactions

\* C6 witness: an execute failed at delete_transactions after a successful
\* push, and the ledger holds what it pushed.
C6_Witness ==
    \E c \in Calls :
        /\ FailedAfterPush(c)
        /\ Len(WritesOf(c)) = 2
        /\ push_transactions(transactions, Unwrap(calls[c].prepared).to_push) = transactions

TooManyError == invalid_params("too many operations")

\* C8: a prepare with more than MAX_BULK_OPERATIONS operations fails with
\* too-many-operations having read nothing from the ledger, processed nothing
\* and staged nothing; a batch of exactly the limit is not rejected for size.
C8_BatchSizeLimit ==
    /\ \A c \in Calls :
          IsPrepare(c) =>
             IF Len(calls[c].operations) > MAX_BULK_OPERATIONS
             THEN /\ FailedWith(c, TooManyError)
                  /\ ~calls[c].ledger_read
                  /\ calls[c].all_transactions = None
                  /\ calls[c].prepared = None
             ELSE ~(Done(c) /\ FailedWith(c, TooManyError))
    /\ \A k \in DOMAIN preparations :
          \E c \in Calls : /\ IsPrepare(c) /\ Succeeded(c)
                           /\ calls[c].result[1].val.preparation_id = k
                           /\ Len(calls[c].operations) <= MAX_BULK_OPERATIONS

\* C8 witness: a batch of limit + 1 operations was rejected and a batch of
\* exactly the limit was staged.
C8_Witness ==
    \E c, d \in Calls :
        /\ IsPrepare(c) /\ Len(calls[c].operations) = MAX_BULK_OPERATIONS + 1
        /\ FailedWith(c, TooManyError)
        /\ IsPrepare(d) /\ Len(calls[d].operations) = MAX_BULK_OPERATIONS
        /\ Succeeded(d)
        /\ calls[d].result[1].val.preparation_id \in DOMAIN preparations

\* ---- batch processing (specification SpecBulk)
\* The failure of one operation taken on its own against the snapshot: an
\* Update or Delete of an id that is not among the existing transactions, or
\* a Create or Update that fails its own validation; None if it is valid.
OpError(op) ==
    IF op.operation = "create"
    THEN LET r == build_transaction(op.params, build_lookup_maps, clock, next_tx_id) IN
         IF r.ok THEN None ELSE Some(r.err)
    ELSE IF \A i \in 1..Len(transactions) : transactions[i].id # op.params.id
    THEN Some(invalid_params("transaction not found"))
    ELSE IF op.operation = "delete" THEN None
    ELSE LET r == apply_update(Unwrap(find_transaction(transactions, op.params.id)),
                               op.params, build_lookup_maps, clock) IN
         IF r.ok THEN None ELSE Some(r.err)

\* Positions of the operations of the batch that fail.
FailingOps == {i \in 1..Len(bulk.operations) : OpError(bulk.operations[i]) # None}
FirstFailing == CHOOSE i \in FailingOps : \A j \in FailingOps : i <= j
Processed == bulk.result # None
BulkResult == bulk.result[1]
CountOps(kind) == Cardinality({i \in 1..Len(bulk.operations) : bulk.operations[i].operation = kind})
IdsOfOps(kind) ==
    {bulk.operations[i].params.id :
        i \in {j \in 1..Len(bulk.operations) : bulk.operations[j].operation = kind}}
PushIds == {BulkResult.val.to_push[i].id : i \in 1..Len(BulkResult.val.to_push)}
DeleteIds == {BulkResult.val.to_delete[i] : i \in 1..Len(BulkResult.val.to_delete)}
ExistingIds == {transactions[i].id : i \in 1..Len(transactions)}

\* C7: process_bulk_operations succeeds only if no operation fails; otherwise
\* it returns the error of the first failing operation in input order and no
\* to_push / to_delete, however many valid operations precede it, and the
\* prepare call on that batch returns that error and stages no preparation.
C7_AllOrNothing ==
    /\ Processed =>
          IF FailingOps = {} THEN BulkResult.ok
          ELSE /\ ~BulkResult.ok
               /\ Some(BulkResult.err) = OpError(bulk.operations[FirstFailing])
    /\ IsPrepare(1) /\ calls[1].all_transactions # None /\ FailingOps # {}
          => /\ Failed(1)
             /\ Some(calls[1].result[1].err) = OpError(bulk.operations[FirstFailing])
             /\ calls[1].prepared = None
             /\ preparations = <<>>

\* C7 witness: a batch whose first operation is valid and whose second fails
\* was processed and prepared; both report the second operation's error.
C7_Witness ==
    /\ Processed
    /\ FailingOps = {2}
    /\ ~BulkResult.ok
    /\ IsPrepare(1) /\ calls[1].all_transactions # None /\ Failed(1)

\* C9 as stated: valid creates, updates whose ids exist and deletes whose ids
\* exist always process successfully, with the counts of the three kinds.
C9_CountsAsStated ==
    Processed
    /\ (\A i \in 1..Len(bulk.operations) :
          IF bulk.operations[i].operation = "create"
          THEN OpError(bulk.operations[i]) = None
          ELSE bulk.operations[i].params.id \in ExistingIds)
    => /\ BulkResult.ok
       /\ BulkResult.val.created_count = CountOps("create")
       /\ BulkResult.val.updated_count = CountOps("update")
       /\ Len(BulkResult.val.to_delete) = CountOps("delete")
       /\ Len(BulkResult.val.to_push) = CountOps("create") + CountOps("update")

\* C9 amended: a batch of valid creates, of updates whose ids exist and whose
\* patch passes its own validation (date, instrument of the new account) and
\* of deletes whose ids exist processes successfully with created_count = K,
\* updated_count = M, len(to_delete) = D and len(to_push) = K + M.
C9_Counts ==
    Processed /\ FailingOps = {}
    => /\ BulkResult.ok
       /\ BulkResult.val.created_count = CountOps("create")
       /\ BulkResult.val.updated_count = CountOps("update")
       /\ Len(BulkResult.val.to_delete) = CountOps("delete")
       /\ Len(BulkResult.val.to_push) = CountOps("create") + CountOps("update")

\* C9 witness: a processed batch of valid operations that repeats an id.
C9_Witness ==
    /\ Processed /\ FailingOps = {} /\ BulkResult.ok
    /\ Len(bulk.operations) = MaxBatchLen
    /\ Cardinality(IdsOfOps("update") \cup IdsOfOps("delete")) = 1
    /\ CountOps("update") + CountOps("delete") = MaxBatchLen

\* C10 as stated: no transaction id is both in to_push and in to_delete.
C10_DisjointAsStated ==
    Processed /\ BulkResult.ok => PushIds \cap DeleteIds = {}

\* C10 amended: an id is both in to_push and in to_delete exactly when the
\* batch holds both an Update and a Delete of it; the ids of the transactions
\* the batch creates are never in to_delete.
C10_Disjoint ==
    Processed /\ BulkResult.ok
    => /\ PushIds \cap DeleteIds = IdsOfOps("update") \cap IdsOfOps("delete")
       /\ \A i \in 1..Len(BulkResult.val.to_push) :
             BulkResult.val.to_push[i].id \notin ExistingIds
             => BulkResult.val.to_push[i].id \notin DeleteIds

\* C10 witness: a processed batch with a created transaction and a deletion.
C10_Witness ==
    /\ Processed /\ BulkResult.ok
    /\ CountOps("create") > 0
    /\ BulkResult.val.to_delete # <<>>
    /\ PushIds \cap DeleteIds = {}

\* ------------------------------------------------------------------- C11
Applied(fn) == bulk.fn = fn /\ IsSome(bulk.result)

\* C11: classify_transaction yields exactly one of the three kinds for every
\* transaction: Transfer iff outcome > 0, income > 0 and the accounts differ;
\* otherwise Income iff income > 0 and (outcome = 0 or the accounts are equal);
\* otherwise Expense.  Both amounts positive on one account is Income,
\* income > 0 with outcome = 0 is Income, outcome > 0 with income = 0 is
\* Expense, and both amounts zero is Expense.
C11_ClassifyTotal ==
    Applied("classify_transaction") =>
        LET tx == bulk.tx
            kind == Unwrap(bulk.result)
            same == tx.outcome_account = tx.income_account
            is_transfer == tx.outcome > 0 /\ tx.income > 0 /\ ~same
            is_income == ~is_transfer /\ tx.income > 0 /\ (tx.outcome = 0 \/ same)
        IN
        /\ kind \in {"transfer", "income", "expense"}
        /\ (kind = "transfer") <=> is_transfer
        /\ (kind = "income") <=> is_income
        /\ (kind = "expense") <=> (~is_transfer /\ ~is_income)
        /\ (tx.outcome > 0 /\ tx.income > 0 /\ same) => kind = "income"
        /\ (tx.income > 0 /\ tx.outcome = 0) => kind = "income"
        /\ (tx.outcome > 0 /\ tx.income = 0) => kind = "expense"
        /\ (tx.outcome = 0 /\ tx.income = 0) => kind = "expense"

\* C11 witness: a transaction with both amounts positive on one account has
\* been classified as Income.
C11_Witness ==
    /\ Applied("classify_transaction")
    /\ bulk.tx.outcome > 0 /\ bulk.tx.income > 0
    /\ bulk.tx.outcome_account = bulk.tx.income_account
    /\ Unwrap(bulk.result) = "income"

\* ------------------------------------------------------------------- C12
\* C12: resolve_instrument returns the explicit override whenever one is
\* supplied, whether or not the account is in the maps or has another
\* instrument; with no override it returns the account's mapped instrument;
\* with neither it fails with an invalid-input error and no instrument.
C12_ResolveInstrument ==
    Applied("resolve_instrument") =>
        LET r == Unwrap(bulk.result) IN
        IF IsSome(bulk.explicit)
        THEN r.ok /\ r.val = Unwrap(bulk.explicit)
        ELSE IF bulk.account_id \in DOMAIN AccountInstrument
        THEN r.ok /\ r.val = AccountInstrument[bulk.account_id]
        ELSE ~r.ok /\ r.err.code = "invalid_params" /\ r.val = <<>>

\* C12 witness: an override was returned for an account with another
\* instrument of its own.
C12_Witness ==
    /\ Applied("resolve_instrument")
    /\ bulk.account_id = "acc-1" /\ bulk.explicit = Some(7)
    /\ Unwrap(bulk.result).ok /\ Unwrap(bulk.result).val = 7

\* ------------------------------------------------------------------- C13
\* C13: for every Expense or Income create spec that resolves, resolve_sides
\* gives the same account and the same instrument on both sides, the given
\* amount on the side of the kind and exactly 0 on the other side.
C13_SingleAccountSides ==
    (/\ Applied("resolve_sides")
     /\ bulk.params.transaction_type \in {"expense", "income"}
     /\ Unwrap(bulk.result).ok) =>
        LET params == bulk.params
            sides == Unwrap(bulk.result).val
        IN
        /\ sides.outcome_account = params.account_id
        /\ sides.income_account = params.account_id
        /\ sides.outcome_instrument = sides.income_instrument
        /\ IF params.transaction_type = "expense"
           THEN sides.outcome = params.amount /\ sides.income = 0
           ELSE sides.income = params.amount /\ sides.outcome = 0

\* C13 witness: an Income spec with a non-zero amount has been resolved.
C13_Witness ==
    /\ Applied("resolve_sides")
    /\ bulk.params.transaction_type = "income"
    /\ bulk.params.amount = 500
    /\ Unwrap(bulk.result).ok
    /\ Unwrap(bulk.result).val.income = 500

\* ------------------------------------------------------------------- C14
\* C14: for a Transfer create spec, resolve_sides fails when no destination
\* account is given; otherwise it resolves each side's instrument for that
\* side's own account and override (failing if one cannot be resolved), the
\* outcome side is (source account, amount, source instrument), the income
\* side is (destination account, destination amount, destination
\* instrument), and the income amount is the source amount when to_amount is
\* absent and to_amount, whatever the source amount, when it is present.
C14_TransferSides ==
    (Applied("resolve_sides") /\ bulk.params.transaction_type = "transfer") =>
        LET params == bulk.params
            r == Unwrap(bulk.result)
        IN
        IF ~IsSome(params.to_account_id)
        THEN ~r.ok /\ r.err.code = "invalid_params"
        ELSE LET to_account_id == Unwrap(params.to_account_id)
                 source == resolve_instrument(build_lookup_maps, params.account_id,
                                              params.instrument_id)
                 destination == resolve_instrument(build_lookup_maps, to_account_id,
                                                   params.to_instrument_id)
             IN
             /\ r.ok <=> (source.ok /\ destination.ok)
             /\ r.ok =>
                  /\ r.val.outcome_account = params.account_id
                  /\ r.val.outcome = params.amount
                  /\ r.val.outcome_instrument = source.val
                  /\ r.val.income_account = to_account_id
                  /\ r.val.income_instrument = destination.val
                  /\ r.val.income = (IF IsSome(params.to_amount)
                                     THEN Unwrap(params.to_amount) ELSE params.amount)

\* C14 witness: a transfer between accounts of different instruments with a
\* destination amount other than the source amount has been resolved.
C14_Witness ==
    /\ Applied("resolve_sides")
    /\ bulk.params.transaction_type = "transfer"
    /\ bulk.params.account_id = "acc-1"
    /\ bulk.params.to_account_id = Some("acc-2")
    /\ bulk.params.amount = 500 /\ bulk.params.to_amount = Some(300)
    /\ Unwrap(bulk.result).ok
    /\ Unwrap(bulk.result).val.income = 300
    /\ Unwrap(bulk.result).val.outcome_instrument = 1
    /\ Unwrap(bulk.result).val.income_instrument = 2

\* ------------------------------------------------------------------- C15
\* C15: apply_update with account_id present classifies the transaction as
\* it is before the account change; for an Expense or Income it sets both
\* accounts to the new account and both instruments to that account's
\* instrument; for a Transfer it changes only outcome_account and
\* outcome_instrument and leaves the income side as it was.  (The income
\* side is read off the result when the patch has no to_account_id, which
\* would overwrite it afterwards.)
C15_AccountPatch ==
    (/\ Applied("apply_update")
     /\ IsSome(bulk.params.account_id)
     /\ Unwrap(bulk.result).ok) =>
        LET tx == bulk.tx
            after == Unwrap(bulk.result).val
            account_id == Unwrap(bulk.params.account_id)
            instrument == resolve_instrument(build_lookup_maps, account_id, None)
            kind == classify_transaction(tx)
        IN
        /\ instrument.ok
        /\ after.outcome_account = account_id
        /\ after.outcome_instrument = instrument.val
        /\ ~IsSome(bulk.params.to_account_id) =>
             IF kind \in {"expense", "income"}
             THEN /\ after.income_account = account_id
                  /\ after.income_instrument = instrument.val
             ELSE /\ kind = "transfer"
                  /\ after.income_account = tx.income_account
                  /\ after.income_instrument = tx.income_instrument

\* C15 witness: the source account of a Transfer was changed and its
\* destination side, in another instrument, was kept.
C15_Witness ==
    /\ Applied("apply_update")
    /\ IsSome(bulk.params.account_id)
    /\ ~IsSome(bulk.params.to_account_id)
    /\ Unwrap(bulk.result).ok
    /\ Unwrap(bulk.result).val.outcome_account # bulk.tx.outcome_account
    /\ classify_transaction(bulk.tx) = "transfer"
    /\ Unwrap(bulk.result).val.income_account = bulk.tx.income_account
    /\ Unwrap(bulk.result).val.income_instrument # Unwrap(bulk.result).val.outcome_instrument

\* ------------------------------------------------------------------- C16
\* The transaction as the amount rule of apply_update sees it: the accounts
\* are those of the result, the amounts are still those on entry.
AtAmountRule == [bulk.tx EXCEPT
                    !.outcome_account = Unwrap(bulk.result).val.outcome_account,
                    !.income_account = Unwrap(bulk.result).val.income_account]

\* C16: apply_update with amount present and no to_amount sets the income
\* amount when the transaction classifies as Income and the outcome amount
\* when it classifies as Expense or Transfer, and leaves the amount of the
\* other side unchanged.
C16_AmountPatch ==
    (/\ Applied("apply_update")
     /\ IsSome(bulk.params.amount)
     /\ ~IsSome(bulk.params.to_amount)
     /\ Unwrap(bulk.result).ok) =>
        LET tx == bulk.tx
            after == Unwrap(bulk.result).val
            amount == Unwrap(bulk.params.amount)
        IN
        IF classify_transaction(AtAmountRule) = "income"
        THEN after.income = amount /\ after.outcome = tx.outcome
        ELSE after.outcome = amount /\ after.income = tx.income

\* C16 witness: amount 750 on an Income transaction set its income and left
\* its outcome at 0.
C16_Witness ==
    /\ Applied("apply_update")
    /\ bulk.params.amount = Some(750) /\ ~IsSome(bulk.params.to_amount)
    /\ classify_transaction(bulk.tx) = "income"
    /\ bulk.tx.outcome = 0
    /\ Unwrap(bulk.result).ok
    /\ Unwrap(bulk.result).val.income = 750
    /\ Unwrap(bulk.result).val.outcome = 0

\* ------------------------------------------------------------------- C17
\* C17: every transaction that process_bulk_operations builds or patches
\* and places in to_push, and so every transaction staged for
\* push_transactions, has outcome >= 0 and income >= 0, for every accepted
\* input.
C17_NonNegativeAmounts ==
    /\ (Processed /\ BulkResult.ok) =>
          \A i \in 1..Len(BulkResult.val.to_push) :
              /\ BulkResult.val.to_push[i].outcome >= 0
              /\ BulkResult.val.to_push[i].income >= 0
    /\ \A k \in DOMAIN preparations :
          \A i \in 1..Len(preparations[k].to_push) :
              /\ preparations[k].to_push[i].outcome >= 0
              /\ preparations[k].to_push[i].income >= 0

\* ------------------------------------------------------------------- C18
\* The error kinds returned for malformed requests: a bad date, an unknown
\* transaction id and an oversized batch.
InvalidInputKinds ==
    { parse_date(BadDate).err.code,
      process_bulk_operations(<<Delete(UnknownTx)>>, <<>>, build_lookup_maps, 0, 0).err.code,
      TooManyError.code }

\* C18: an execute call with an unknown preparation key fails with a
\* not-found error whose kind is not the kind of the invalid-input errors.
C18_NotFoundKindDistinct ==
    \A c \in Calls :
        (IsExecute(c) /\ calls[c].lookup = "missing") =>
            /\ Failed(c)
            /\ calls[c].result[1].err.code \notin InvalidInputKinds

\* ------------------------------------------------------------------- C19
IsTagCall(c) == calls[c].tool \in {"create_tag", "create_category"}

\* The tags that were in the ledger when call c was entered and whose
\* trimmed, lower-cased title equals that of the requested title.
MatchingAtEntry(c) ==
    {i \in 1..Len(calls[c].tags_at_entry) :
        normalized_title_key(calls[c].tags_at_entry[i].title)
            = normalized_title_key(calls[c].params.title)}

RequestsExisting(c) == IsTagCall(c) /\ MatchingAtEntry(c) # {}

ReturnsExisting(c) ==
    /\ Succeeded(c)
    /\ \E i \in MatchingAtEntry(c) :
          calls[c].result[1].val = TagResponse(calls[c].tags_at_entry[i])

\* C19 as stated: a create_tag / create_category call whose title matches an
\* existing tag returns that tag and pushes nothing, leaving the tags as
\* they are.
C19_IdempotentAsStated ==
    [][\A c \in TagCalls :
          (calls'[c] # calls[c] /\ RequestsExisting(c)') =>
              /\ tags' = tags
              /\ writes' = writes
              /\ Done(c)' => ReturnsExisting(c)']_vars

\* C19 amended: such a call pushes nothing and leaves the tags as they are,
\* whatever its outcome; it returns the existing tag when its ledger reads
\* succeed and the internal ledger error when one of them fails.
C19_Idempotent ==
    [][\A c \in TagCalls :
          (calls'[c] # calls[c] /\ RequestsExisting(c)') =>
              /\ tags' = tags
              /\ writes' = writes
              /\ Done(c)' => \/ ReturnsExisting(c)'
                             \/ FailedWith(c, zen_err)']_vars

\* C19 witness: two calls, one after the other, asked for the title of the
\* existing tag in another spelling; both returned that tag, nothing was
\* pushed and the tags are as they were.
C19_Witness ==
    /\ MaxTagCalls >= 2
    /\ RequestsExisting(1) /\ ReturnsExisting(1)
    /\ RequestsExisting(2) /\ ReturnsExisting(2)
    /\ calls[1].tool = "create_tag" /\ calls[2].tool = "create_category"
    /\ calls[1].params.title # sample_tags[1].title
    /\ calls[2].entered_with = {}
    /\ writes = <<>>
    /\ tags = sample_tags

\* ------------------------------------------------------------------- C20
\* The filtered, date-sorted list a list_transactions call pages over.
Listed == list_sorted(filter_transactions(transactions, bulk.filter), bulk.params)

\* The page the documentation of limit and offset describes.
DocumentedPage ==
    LET offset == IF IsSome(bulk.params.offset) THEN Unwrap(bulk.params.offset) ELSE 0
        asked == IF IsSome(bulk.params.limit) THEN Unwrap(bulk.params.limit)
                 ELSE DefaultLimit
        limit == IF asked > MaxLimit THEN MaxLimit ELSE asked
        last == IF offset + limit < Len(Listed) THEN offset + limit ELSE Len(Listed)
    IN SubSeq(Listed, offset + 1, last)

\* C20: list_transactions skips the first `offset` transactions (default 0)
\* of the filtered, date-sorted list and returns at most `limit` of the
\* rest, limit being 100 when omitted and capped at 500.
C20_Pagination ==
    (/\ bulk.fn = "list_transactions" /\ bulk.pc = "done"
     /\ Unwrap(bulk.result).ok) =>
        Unwrap(bulk.result).val =
            [i \in 1..Len(DocumentedPage) |-> TransactionResponse(DocumentedPage[i])]

\* ------------------------------------------------------------------- C21
\* C21: apply_update applies its rules in the order date, tags, payee,
\* comment, account_id, to_account_id, amount, to_amount: a bad date fails
\* the call before any account is resolved; the amount rule uses the kind of
\* the transaction as the account_id and to_account_id rules of the same
\* call left it, not its kind on entry; to_amount is applied after amount.
\* So a Transfer whose account patch makes outcome_account equal
\* income_account is Income for the amount rule and the amount lands on the
\* income side.
C21_PatchOrder ==
    Applied("apply_update") =>
        LET tx == bulk.tx
            params == bulk.params
            r == Unwrap(bulk.result)
        IN
        /\ (IsSome(params.date) /\ ~parse_date(Unwrap(params.date)).ok) =>
              (~r.ok /\ r.err = parse_date(Unwrap(params.date)).err)
        /\ (r.ok /\ IsSome(params.amount)) =>
              IF classify_transaction(AtAmountRule) = "income"
              THEN /\ r.val.outcome = tx.outcome
                   /\ r.val.income = (IF IsSome(params.to_amount)
                                      THEN Unwrap(params.to_amount)
                                      ELSE Unwrap(params.amount))
              ELSE /\ r.val.outcome = Unwrap(params.amount)
                   /\ r.val.income = (IF IsSome(params.to_amount)
                                      THEN Unwrap(params.to_amount) ELSE tx.income)
        /\ (/\ r.ok
            /\ classify_transaction(tx) = "transfer"
            /\ params.account_id = Some(tx.income_account)
            /\ ~IsSome(params.to_account_id)
            /\ IsSome(params.amount) /\ ~IsSome(params.to_amount)) =>
              (r.val.income = Unwrap(params.amount) /\ r.val.outcome = tx.outcome)

\* C21 witness: a Transfer was patched with the account of its income side
\* and an amount, and the amount is on the income side of the result.
C21_Witness ==
    /\ Applied("apply_update")
    /\ classify_transaction(bulk.tx) = "transfer"
    /\ bulk.params.account_id = Some(bulk.tx.income_account)
    /\ ~IsSome(bulk.params.to_account_id)
    /\ bulk.params.amount = Some(750) /\ ~IsSome(bulk.params.to_amount)
    /\ Unwrap(bulk.result).ok
    /\ Unwrap(bulk.result).val.income = 750
    /\ Unwrap(bulk.result).val.outcome = bulk.tx.outcome
    /\ bulk.tx.outcome # 750

\* ------------------------------------------------------------------- C22
\* C22: a successful apply_update refreshes `changed` and otherwise changes
\* only the fields governed by the parameters present in the patch: id and
\* created are kept; date, tag, payee and comment are kept when the
\* parameter of that name is absent; the outcome account and instrument are
\* kept when account_id is absent, the income account and instrument when
\* account_id and to_account_id are both absent; the outcome amount is kept
\* when amount is absent, the income amount when amount and to_amount are
\* both absent.  An empty patch changes nothing but `changed`.
C22_PatchFrame ==
    (Applied("apply_update") /\ Unwrap(bulk.result).ok) =>
        LET tx == bulk.tx
            params == bulk.params
            after == Unwrap(bulk.result).val
        IN
        /\ after.changed = clock
        /\ after.id = tx.id /\ after.created = tx.created
        /\ ~IsSome(params.date) => after.date = tx.date
        /\ ~IsSome(params.tag_ids) => after.tag = tx.tag
        /\ ~IsSome(params.payee) => after.payee = tx.payee
        /\ ~IsSome(params.comment) => after.comment = tx.comment
        /\ ~IsSome(params.account_id) =>
              /\ after.outcome_account = tx.outcome_account
              /\ after.outcome_instrument = tx.outcome_instrument
        /\ (~IsSome(params.account_id) /\ ~IsSome(params.to_account_id)) =>
              /\ after.income_account = tx.income_account
              /\ after.income_instrument = tx.income_instrument
        /\ ~IsSome(params.amount) => after.outcome = tx.outcome
        /\ (~IsSome(params.amount) /\ ~IsSome(params.to_amount)) =>
              after.income = tx.income
        /\ (\A field \in DOMAIN params \ {"id"} : params[field] = None) =>
              after = [tx EXCEPT !.changed = clock]

\* C22 witness: an empty patch was applied to a transaction with a tag, a
\* payee and a comment; the result differs from it in `changed` only.
C22_Witness ==
    /\ Applied("apply_update") /\ Unwrap(bulk.result).ok
    /\ \A field \in DOMAIN bulk.params \ {"id"} : bulk.params[field] = None
    /\ bulk.tx.payee = Some("market") /\ bulk.tx.tag = Some(<<2>>)
    /\ Unwrap(bulk.result).val.changed # bulk.tx.changed
    /\ Unwrap(bulk.result).val = [bulk.tx EXCEPT !.changed = clock]

\* -------------------------------------------------------------------------
\* C23: the preparation-store lock is never held across a suspension point.
\* Whoever holds it is inside the single insert of a prepare call or the
\* single remove-and-return of an execute call, and no call that awaits a
\* ledger client call (or has not started, or has returned) holds it, so
\* the holder can always release it without waiting for the ledger.
LockHolders == {c \in Calls : lock = c}

C23_LockNeverAcrossAwait ==
    /\ lock \in Calls \cup {0}
    /\ \A c \in Calls :
          calls[c].pc \in AwaitPoints \cup {"idle", "done"} => lock # c
    /\ \A c \in LockHolders :
          \/ calls[c].tool = "prepare" /\ calls[c].pc = "stage_locked"
          \/ calls[c].tool = "execute" /\ calls[c].pc = "consume_locked"

\* One request holds the lock for its remove while another request is
\* suspended in a ledger write.
C23_Witness ==
    \E c \in Calls : \E d \in Calls \ {c} :
        /\ lock = c
        /\ calls[c].pc = "consume_locked"
        /\ calls[d].pc \in {"push", "delete"}

\* -------------------------------------------------------------------------
\* C24: write order inside execute_bulk_operations.  The ledger writes of
\* one execute call are, in this order, at most one push of the staged
\* to_push and at most one delete of the staged to_delete, whatever the
\* order of the operations in the batch; after a failed push the call makes
\* no delete; an empty to_push causes no push and an empty to_delete no
\* delete; a call that returned its summary made every write its batch has.
KindsOf(c) == [i \in 1..Len(WritesOf(c)) |-> WritesOf(c)[i].kind]

HasWrite(c, kind, ok) ==
    \E i \in 1..Len(WritesOf(c)) : WritesOf(c)[i].kind = kind /\ WritesOf(c)[i].ok = ok

ExecuteCalls == {c \in Calls : calls[c].tool = "execute"}

C24_WriteOrder ==
    \A c \in ExecuteCalls :
        /\ KindsOf(c) \in {<<>>, <<"push">>, <<"delete">>, <<"push", "delete">>}
        /\ HasWrite(c, "push", FALSE) => KindsOf(c) = <<"push">>
        /\ ~IsSome(calls[c].prepared) => KindsOf(c) = <<>>
        /\ IsSome(calls[c].prepared) =>
              LET prepared == Unwrap(calls[c].prepared) IN
              /\ prepared.to_push = <<>> =>
                    \A i \in 1..Len(KindsOf(c)) : KindsOf(c)[i] # "push"
              /\ prepared.to_delete = <<>> =>
                    \A i \in 1..Len(KindsOf(c)) : KindsOf(c)[i] # "delete"
              /\ (calls[c].pc = "done" /\ Unwrap(calls[c].result).ok) =>
                    /\ prepared.to_push # <<>> => HasWrite(c, "push", TRUE)
                    /\ prepared.to_delete # <<>> => HasWrite(c, "delete", TRUE)

\* An execute call of the batch that lists its delete before its update has
\* pushed and then deleted.
C24_Witness ==
    /\ \E c \in ExecuteCalls :
          /\ calls[c].pc = "done"
          /\ IsSome(calls[c].prepared)
          /\ KindsOf(c) = <<"push", "delete">>
          /\ \E p \in Calls : /\ calls[p].tool = "prepare"
                              /\ Len(calls[p].operations) = 2
                              /\ calls[p].operations[1].operation = "delete"
                              /\ calls[p].prepared = calls[c].prepared

\* -------------------------------------------------------------------------
\* C25 as stated: a batch that an execute call has taken from the store is
\* not in the store again, whatever became of that call, and every execute
\* call with its key that was entered after the removal and was not dropped
\* fails with not-found.
Consumed(k) == ObtainersOf(k) # {}

C25_NeverRestoredAsStated ==
    /\ \A k \in ReturnedKeys : Consumed(k) => k \notin DOMAIN preparations
    /\ \A c \in ExecuteCalls :
          (calls[c].entered_after_consume /\ Done(c) /\ ~FailedWith(c, cancelled))
          => FailedWith(c, NotFoundError)

\* C25, amended: a batch that an execute call has taken from the store is
\* not in the store again, whatever became of that call; an execute call
\* with its key that was entered after the removal never obtains the batch
\* and writes nothing: it fails with not-found once it performs the store
\* lookup, and before that only with the error of its own ledger read or by
\* being dropped; every ledger write for the key is made by the one call
\* that took the batch.
C25_NeverRestored ==
    /\ \A k \in ReturnedKeys :
          Consumed(k) => /\ k \notin DOMAIN preparations
                         /\ Cardinality(ObtainersOf(k)) = 1
    /\ \A c \in ExecuteCalls :
          calls[c].entered_after_consume =>
              /\ ~Obtained(c)
              /\ WritesOf(c) = <<>>
              /\ LookedUp(c) => FailedWith(c, NotFoundError)
              /\ (Done(c) /\ ~LookedUp(c)) =>
                    \/ FailedWith(c, zen_err)
                    \/ FailedWith(c, cancelled)
    /\ \A i \in 1..Len(writes) :
          IsExecute(writes[i].call) => Obtained(writes[i].call)

\* The call that took the batch failed in a ledger call or was dropped, and
\* a later execute call with the same key failed with not-found.
C25_Witness ==
    \E c \in ExecuteCalls : \E d \in ExecuteCalls \ {c} :
        /\ Obtained(c) /\ Failed(c)
        /\ calls[d].preparation_id = calls[c].preparation_id
        /\ calls[d].entered_after_consume
        /\ FailedWith(d, NotFoundError)

\* -------------------------------------------------------------------------
\* C26: a staged batch stays in the preparation store, with unchanged
\* content, until an execute call with its own key removes it.  In every
\* step each entry of the store is either kept as it is, or removed by the
\* store lookup of an execute call that was given its key; a step adds at
\* most one entry, under a key that was never used before.
RemovedByOwnExecute(k) ==
    \E c \in Calls :
        /\ IsExecute(c)
        /\ calls[c].preparation_id = k
        /\ calls[c].pc = "consume_locked"
        /\ calls'[c].lookup = "found"
        /\ calls'[c].prepared = Some(preparations[k])

StagedFresh(k) ==
    /\ k = next_prep_id
    /\ k \notin ReturnedKeys
    /\ next_prep_id' > k
    /\ DOMAIN preparations' = DOMAIN preparations \cup {k}

C26_StagedFrameStep ==
    /\ \A k \in DOMAIN preparations :
          \/ k \in DOMAIN preparations' /\ preparations'[k] = preparations[k]
          \/ k \notin DOMAIN preparations' /\ RemovedByOwnExecute(k)
    /\ \A k \in DOMAIN preparations' \ DOMAIN preparations : StagedFresh(k)

C26_StagedFrame == [][C26_StagedFrameStep]_vars

\* A batch is still staged after an execute call with its key failed at the
\* ledger read that precedes the store lookup and after another call
\* (a delete_transaction or an execute with another key) returned.
C26_Witness ==
    \E k \in DOMAIN preparations : \E c \in ExecutesOf(k) : \E d \in Calls \ {c} :
        /\ FailedWith(c, zen_err) /\ ~LookedUp(c)
        /\ Done(d)
        /\ \/ calls[d].tool = "delete_transaction"
           \/ IsExecute(d) /\ calls[d].preparation_id # k
        /\ \E p \in Calls : /\ IsPrepare(p) /\ Succeeded(p)
                            /\ calls[p].result[1].val.preparation_id = k
                            /\ calls[p].prepared = Some(preparations[k])

\* -------------------------------------------------------------------------
\* C27: execute_bulk_operations writes exactly what was staged.  Every
\* ledger write of an execute call carries the list computed by the prepare
\* call that returned its key (to_push for the push, to_delete for the
\* delete), whatever has happened to the ledger since; a call that obtained
\* the batch is never rejected: it ends only with its summary, with the
\* error of a ledger call, or by being dropped.
PreparesOf(k) ==
    {p \in Calls : /\ IsPrepare(p) /\ Succeeded(p)
                   /\ calls[p].result[1].val.preparation_id = k}

StagedArg(p, kind) ==
    IF kind = "push" THEN Unwrap(calls[p].prepared).to_push
    ELSE Unwrap(calls[p].prepared).to_delete

C27_WritesWhatWasStaged ==
    /\ \A i \in 1..Len(writes) :
          IsExecute(writes[i].call) =>
              /\ Cardinality(PreparesOf(writes[i].preparation_id)) = 1
              /\ \A p \in PreparesOf(writes[i].preparation_id) :
                    writes[i].arg = StagedArg(p, writes[i].kind)
    /\ \A c \in ExecuteCalls :
          (Obtained(c) /\ Done(c)) =>
              \/ calls[c].result = Some(ExecuteSummary(Unwrap(calls[c].prepared)))
              \/ FailedWith(c, zen_err)
              \/ FailedWith(c, cancelled)

\* A prepare call saw transaction 1 and staged an update of it; then a
\* delete_transaction call removed transaction 1 from the ledger; then the
\* execute call pushed the staged update all the same and returned its
\* summary.
C27_Witness ==
    \E p \in Calls : \E c \in ExecuteCalls :
    \E i \in 1..Len(writes) : \E j \in 1..Len(writes) :
        /\ p \in PreparesOf(calls[c].preparation_id)
        /\ IsSome(find_transaction(Unwrap(calls[p].all_transactions), 1))
        /\ Succeeded(c)
        /\ i < j
        /\ calls[writes[i].call].tool = "delete_transaction"
        /\ writes[i].ok /\ writes[i].arg = <<1>>
        /\ writes[j].call = c /\ writes[j].kind = "push" /\ writes[j].ok
        /\ \E n \in 1..Len(writes[j].arg) : writes[j].arg[n].id = 1
        /\ IsSome(find_transaction(transactions, 1))

\* -------------------------------------------------------------------------
\* C28: updates in one batch are not cumulative.  When
\* process_bulk_operations accepts a batch, to_push has one entry per create
\* and update, in batch order, and the entry of every update is the
\* transaction of that id as it is in the snapshot with that update alone
\* applied to it, also when an earlier update of the batch has the same id;
\* the snapshot is the same after the step.
Queued(operations) == SelectSeq(operations, LAMBDA op : op.operation # "delete")

C28_UpdatesFromSnapshotStep ==
    (bulk.result = None /\ bulk'.result # None) =>
        /\ transactions' = transactions
        /\ Unwrap(bulk'.result).ok =>
              LET to_push == Unwrap(bulk'.result).val.to_push
                  queued == Queued(bulk.operations)
              IN
              /\ Len(to_push) = Len(queued)
              /\ \A i \in 1..Len(queued) :
                    queued[i].operation = "update" =>
                        LET old == Unwrap(find_transaction(transactions, queued[i].params.id))
                            alone == apply_update(old, queued[i].params, build_lookup_maps, clock)
                        IN
                        /\ alone.ok
                        /\ to_push[i] = alone.val

C28_UpdatesFromSnapshot == [][C28_UpdatesFromSnapshotStep]_vars

\* A batch of two updates of transaction 1 was accepted: the first entry
\* carries the new amount of the first update, the second entry carries the
\* amount of the snapshot and the new account of the second update.
C28_Witness ==
    /\ Len(bulk.operations) = 2
    /\ bulk.operations[1] = Update(1, None, Some(200), None)
    /\ bulk.operations[2] = Update(1, None, None, Some("acc-2"))
    /\ find_transaction(transactions, 1) = Some(sample_transaction(1, 100, 0))
    /\ bulk.result # None
    /\ Unwrap(bulk.result).ok
    /\ LET to_push == Unwrap(bulk.result).val.to_push IN
       /\ Len(to_push) = 2
       /\ to_push[1].outcome = 200 /\ to_push[1].outcome_account = "acc-1"
       /\ to_push[2].outcome = 100 /\ to_push[2].outcome_account = "acc-2"

\* -------------------------------------------------------------------------
\* C29: kind round-trip of a created transaction.  A transaction built from
\* a create spec with amount > 0 (for a transfer: with a destination account
\* other than the source account and a destination amount > 0, the
\* destination amount being to_amount, or amount when to_amount is absent)
\* is classified as the transaction_type of the spec.
RoundTripSpec(params) ==
    /\ params.amount > 0
    /\ params.transaction_type = "transfer" =>
          /\ IsSome(params.to_account_id)
          /\ Unwrap(params.to_account_id) # params.account_id
          /\ (IF IsSome(params.to_amount) THEN Unwrap(params.to_amount)
              ELSE params.amount) > 0

C29_KindRoundTrip ==
    (Applied("build_transaction") /\ Unwrap(bulk.result).ok /\ RoundTripSpec(bulk.params))
    => classify_transaction(Unwrap(bulk.result).val) = bulk.params.transaction_type

\* A transfer with its own destination amount was built.
C29_Witness ==
    /\ Applied("build_transaction")
    /\ Unwrap(bulk.result).ok
    /\ RoundTripSpec(bulk.params)
    /\ bulk.params.transaction_type = "transfer"
    /\ bulk.params.to_amount = Some(300)
    /\ Unwrap(bulk.result).val.income = 300
    /\ classify_transaction(Unwrap(bulk.result).val) = "transfer"

\* -------------------------------------------------------------------------
\* C30: concurrent tag creation keeps titles unique.  Of two create_tag /
\* create_category calls that were in flight at the same time and asked for
\* the same title (after trimming and lower-casing), a title no tag had
\* when they were entered, at most one pushed a new tag to the ledger.
Overlapped(c, d) == c \in calls[d].entered_with \/ d \in calls[c].entered_with

PushedTag(c) ==
    \E i \in 1..Len(writes) :
        writes[i].call = c /\ writes[i].kind = "push_tags" /\ writes[i].ok

C30_ConcurrentUniqueTitles ==
    \A c \in TagCalls : \A d \in TagCalls \ {c} :
        ( /\ IsTagCall(c) /\ IsTagCall(d)
          /\ Overlapped(c, d)
          /\ normalized_title_key(calls[c].params.title)
                = normalized_title_key(calls[d].params.title)
          /\ MatchingAtEntry(c) = {} /\ MatchingAtEntry(d) = {} )
        => ~(PushedTag(c) /\ PushedTag(d))

====
